---------------------------- MODULE Spec2Model ----------------------------
(***************************************************************************)
(* A model of the RC5 crate: the two Word abstractions (src/word.rs and    *)
(* the generic Word<T> of src/rc5.rs), the generic engine RC5<T>, the      *)
(* fixed 32-bit engines (src/rc5/cypher.rs, src/algo/cypher.rs,            *)
(* src/lib.rs) and the decimal big-number deriver (src/utils.rs).          *)
(*                                                                         *)
(* Machine integers are byte vectors: a value of n bits is the sequence of *)
(* its n/8 bytes, least significant first.  The model checker's own        *)
(* integers (32 bits, signed) are used only for indices, lengths, bytes    *)
(* and shift amounts.                                                      *)
(***************************************************************************)
EXTENDS Integers, Sequences, FiniteSets, TLC

(***************************************************************************)
(* Byte vectors                                                            *)
(***************************************************************************)

\* The function f on 1..n as the tuple of its n values.
Vec(f) == f \o <<>>

\* The n-byte vector of the natural number x (x below 2^31).
Bytes(x, n) == Vec([i \in 1..n |-> IF i <= 4 THEN (x \div (256 ^ (i - 1))) % 256 ELSE 0])

Zeros(n) == Vec([i \in 1..n |-> 0])

Ones(n) == Vec([i \in 1..n |-> 255])

\* v cast to n bytes: truncated (`as uN`) or zero-extended.
Resize(v, n) == Vec([i \in 1..n |-> IF i <= Len(v) THEN v[i] ELSE 0])

IsZero(v) == \A i \in 1..Len(v) : v[i] = 0

\* 2^k for k in 0..8.
Pow2(k) == <<1, 2, 4, 8, 16, 32, 64, 128, 256>>[k + 1]

\* Bit k of the byte a.
Bit(a, k) == (a \div Pow2(k)) % 2

BitOr(p, q) == IF p + q > 0 THEN 1 ELSE 0

BitAnd(p, q) == p * q

BitXor(p, q) == (p + q) % 2

\* The table of a bitwise operator on half bytes: entry [a + 1][b + 1] is
\* the half byte whose bit k is F(bit k of a, bit k of b).
NibbleTable(F(_, _)) ==
    Vec([a \in 1..16 |->
        Vec([b \in 1..16 |->
              F(Bit(a - 1, 0), Bit(b - 1, 0)) + 2 * F(Bit(a - 1, 1), Bit(b - 1, 1))
            + 4 * F(Bit(a - 1, 2), Bit(b - 1, 2)) + 8 * F(Bit(a - 1, 3), Bit(b - 1, 3))])])

OrTable == NibbleTable(BitOr)

AndTable == NibbleTable(BitAnd)

XorTable == NibbleTable(BitXor)

\* The bitwise operator of table T on the bytes a and b.
ByteOp(T, a, b) ==
    16 * T[(a \div 16) + 1][(b \div 16) + 1] + T[(a % 16) + 1][(b % 16) + 1]

OrBits(x, y) == Vec([i \in 1..Len(x) |-> ByteOp(OrTable, x[i], y[i])])

AndBits(x, y) == Vec([i \in 1..Len(x) |-> ByteOp(AndTable, x[i], y[i])])

XorBits(x, y) == Vec([i \in 1..Len(x) |-> ByteOp(XorTable, x[i], y[i])])

NotBits(x) == Vec([i \in 1..Len(x) |-> 255 - x[i]])

\* The value of v modulo m (m below 2^22), most significant byte first.
RECURSIVE NatModFrom(_, _, _, _)
NatModFrom(v, i, m, acc) ==
    IF i < 1 THEN acc ELSE NatModFrom(v, i - 1, m, (256 * acc + v[i]) % m)

NatMod(v, m) == NatModFrom(v, Len(v), m, 0)

\* x << s and x >> s for 0 <= s < 8 * Len(x): bits shifted out are lost.
ShlBits(x, s) ==
    LET q == s \div 8
        r == s % 8
    IN  Vec([i \in 1..Len(x) |->
                (IF i - q >= 1 THEN (x[i - q] * Pow2(r)) % 256 ELSE 0)
              + (IF i - q - 1 >= 1 THEN x[i - q - 1] \div Pow2(8 - r) ELSE 0)])

ShrBits(x, s) ==
    LET q == s \div 8
        r == s % 8
        n == Len(x)
    IN  Vec([i \in 1..n |->
                (IF i + q <= n THEN x[i + q] \div Pow2(r) ELSE 0)
              + (IF i + q + 1 <= n THEN (x[i + q + 1] * Pow2(8 - r)) % 256 ELSE 0)])

\* x + y + cin, byte by byte from the least significant: the wrapped sum
\* and the carry out.
RECURSIVE AddFrom(_, _, _, _, _)
AddFrom(x, y, i, carry, acc) ==
    IF i > Len(x) THEN [value |-> acc, carry |-> carry]
    ELSE LET t == x[i] + y[i] + carry
         IN  AddFrom(x, y, i + 1, t \div 256, Append(acc, t % 256))

AddBits(x, y, cin) == AddFrom(x, y, 1, cin, <<>>)

\* x - y: the wrapped difference and whether it borrowed (x < y).
SubBits(x, y) ==
    LET r == AddBits(x, NotBits(y), 1)
    IN  [value |-> r.value, borrow |-> r.carry = 0]

\* x > y, unsigned.
GtBits(x, y) == SubBits(y, x).borrow

\* The low k bits of a, as a vector as long as a.
MaskLow(a, k) ==
    Vec([i \in 1..Len(a) |->
            IF 8 * i <= k THEN a[i]
            ELSE IF 8 * (i - 1) < k THEN a[i] % Pow2(k - 8 * (i - 1))
            ELSE 0])

\* The vector of n bytes whose only set bit is bit e.
UnitBit(e, n) == Vec([i \in 1..n |-> IF e \div 8 = i - 1 THEN Pow2(e % 8) ELSE 0])

\* The position of the set bit of a vector with exactly one set bit, -1
\* for any other vector.
Log2Exact(m) ==
    LET nz == {i \in 1..Len(m) : m[i] # 0}
    IN  IF Cardinality(nz) # 1 THEN -1
        ELSE LET i == CHOOSE j \in nz : TRUE
             IN  IF \E k \in 0..7 : m[i] = Pow2(k)
                 THEN 8 * (i - 1) + (CHOOSE k \in 0..7 : m[i] = Pow2(k))
                 ELSE -1

(***************************************************************************)
(* The outcome of an operation on words: a word, or the panic that aborts  *)
(* the program.                                                            *)
(***************************************************************************)
OkWord(w, v) == [tag |-> "ok", width |-> w, value |-> v]

Panic == [tag |-> "panic", width |-> 0, value |-> <<>>]

\* No Word yet.
NoWord == [tag |-> "none", width |-> 0, value |-> <<>>]

\* Overflow checks are on in a debug build and off in a release build.
Profiles == {"debug", "release"}

\* `for k in lo..=hi { st = F(st, k) }` on a loop state st, a record whose
\* field tag becomes "panic" when the body panics: the loop then stops.
\* The range is split in halves so that the evaluation stays shallow.
RECURSIVE ForLoop(_, _, _, _)
ForLoop(F(_, _), st, lo, hi) ==
    IF lo > hi \/ st.tag = "panic" THEN st
    ELSE IF lo = hi THEN F(st, lo)
    ELSE LET mid == (lo + hi) \div 2
             rest(left) ==
                 IF left.tag = "panic" THEN left ELSE ForLoop(F, left, mid + 1, hi)
         IN  rest(ForLoop(F, st, lo, mid))


\* A while loop: the body F is applied to the state until its field tag is
\* "done".  Repeat applies it up to 2^k times, and the loop doubles the count
\* until the state is done, so that the evaluation stays shallow; a loop that
\* never ends has no value.
RECURSIVE Repeat(_, _, _)
Repeat(F(_), st, k) ==
    IF st.tag = "done" THEN st
    ELSE IF k = 0 THEN F(st)
    ELSE LET rest(half) == Repeat(F, half, k - 1)
         IN  rest(Repeat(F, st, k - 1))

RECURSIVE WhileLoop(_, _, _)
WhileLoop(F(_), st, k) ==
    LET next(r) == IF r.tag = "done" THEN r ELSE WhileLoop(F, r, k + 1)
    IN  next(Repeat(F, st, k))

(***************************************************************************)
(* src/word.rs: Word, a width-tagged value computed in LargestType (u128). *)
(***************************************************************************)

\* LargestType = u128: its size in bits and in bytes.
LargestBits == 128

LargestBytes == LargestBits \div 8

\* a + b in u128: the wrapped sum and whether it overflowed.
U128Add(a, b) ==
    LET r == AddBits(a, b, 0)
    IN  [value |-> r.value, overflow |-> r.carry = 1]

\* a % m in u128 for the divisors the code forms: zero (a panic in every
\* build), a power of two, or a small number.
U128Rem(a, m) ==
    IF IsZero(m) THEN [tag |-> "panic", value |-> <<>>]
    ELSE LET k == Log2Exact(m)
         IN  CASE k >= 0 -> [tag |-> "ok", value |-> MaskLow(a, k)]
               [] k < 0 /\ IsZero(ShrBits(m, 22)) ->
                    [tag |-> "ok",
                     value |-> Bytes(NatMod(a, NatMod(m, 2 ^ 22)), LargestBytes)]

\* A WordType::new that takes any width.
WordType_new_AnyWidth(word_size, value) ==
    OkWord(word_size, Resize(value, word_size \div 8))

\* WordType::new: the value cast to the type of the width; any other width
\* panics.
WordType_new(word_size, value) ==
    IF word_size \in {8, 16, 32, 64, 128}
    THEN OkWord(word_size, Resize(value, word_size \div 8))
    ELSE Panic

\* WordType::max_val: uN::MAX as u128.
max_val(self) == Resize(Ones(self.width \div 8), LargestBytes)

\* WordType::extract: (num_bits_per_word, value as u128).
extract(self) == <<self.width, Resize(self.value, LargestBytes)>>

Word_new(word_size, value) == WordType_new(word_size, value)

\* WordBuilder::build_word, of a builder made for word_size.
build_word(word_size, value) == Word_new(word_size, value)

\* Word::check_types: TRUE when the discriminants match (no panic).
check_types(self, rhs) == self.width = rhs.width

\* WordRotate without the bits that wrap around: a plain shift.
WordRotate_NoWrap(word_size, self_value, shift_amount, dir) ==
    Word_new(word_size,
             IF dir = "left" THEN ShlBits(self_value, shift_amount)
             ELSE ShrBits(self_value, shift_amount))

\* The rotation common to the three shift operators of Word: left when
\* dir = "left", right otherwise.
WordRotate(word_size, self_value, shift_amount, dir) ==
    LET back == (word_size - shift_amount) % word_size
        left == IF dir = "left" THEN ShlBits(self_value, shift_amount)
                ELSE ShrBits(self_value, shift_amount)
        right == IF dir = "left" THEN ShrBits(self_value, back)
                 ELSE ShlBits(self_value, back)
    IN  Word_new(word_size, OrBits(left, right))

\* Word_shl with the amount reduced modulo the size of LargestType, not of
\* the word.
Word_shl_WrongModulus(self, rhs) ==
    IF ~check_types(self, rhs) THEN Panic
    ELSE WordRotate(extract(self)[1], extract(self)[2],
                    NatMod(extract(rhs)[2], LargestBits), "left")

\* impl Shl<Word> for Word.
Word_shl(self, rhs) ==
    IF ~check_types(self, rhs) THEN Panic
    ELSE LET word_size == extract(self)[1]
             self_value == extract(self)[2]
             rhs_value == extract(rhs)[2]
             shift_amount == NatMod(rhs_value, word_size)
         IN  WordRotate(word_size, self_value, shift_amount, "left")

\* impl Shl<u8> for Word.
Word_shl_u8(self, rhs) ==
    LET word_size == extract(self)[1]
        self_value == extract(self)[2]
        shift_amount == rhs % word_size
    IN  WordRotate(word_size, self_value, shift_amount, "left")

\* impl Shr<Word> for Word.
Word_shr(self, rhs) ==
    IF ~check_types(self, rhs) THEN Panic
    ELSE LET word_size == extract(self)[1]
             self_value == extract(self)[2]
             rhs_value == extract(rhs)[2]
             shift_amount == NatMod(rhs_value, word_size)
         IN  WordRotate(word_size, self_value, shift_amount, "right")

\* impl BitOr for Word.
Word_bitor(self, rhs) ==
    IF ~check_types(self, rhs) THEN Panic
    ELSE Word_new(extract(self)[1], OrBits(extract(self)[2], extract(rhs)[2]))

\* impl BitAnd for Word.
Word_bitand(self, rhs) ==
    IF ~check_types(self, rhs) THEN Panic
    ELSE Word_new(extract(self)[1], AndBits(extract(self)[2], extract(rhs)[2]))

\* impl BitXor for Word.
Word_bitxor(self, rhs) ==
    IF ~check_types(self, rhs) THEN Panic
    ELSE Word_new(extract(self)[1], XorBits(extract(self)[2], extract(rhs)[2]))

\* derive(PartialEq) for Word: the same variant of WordType and the same
\* value in it.
Word_eq(self, rhs) == self.width = rhs.width /\ self.value = rhs.value

\* `(self_value + rhs_value) % max_val` with max_val = self.data.max_val() + 1,
\* as impl Add and impl Add<u8> compute it.  Each `+` panics on overflow in
\* a debug build and wraps in a release build.
WordAddValue(self, rhs_value, profile) ==
    LET word_size == extract(self)[1]
        self_value == extract(self)[2]
        maxv == U128Add(max_val(self), Bytes(1, LargestBytes))
        sum == U128Add(self_value, rhs_value)
        rem == U128Rem(sum.value, maxv.value)
    IN  IF maxv.overflow /\ profile = "debug" THEN Panic
        ELSE IF sum.overflow /\ profile = "debug" THEN Panic
        ELSE IF rem.tag = "panic" THEN Panic
        ELSE Word_new(word_size, rem.value)

\* impl Add for Word.
Word_add(self, rhs, profile) ==
    IF ~check_types(self, rhs) THEN Panic
    ELSE WordAddValue(self, extract(rhs)[2], profile)

\* impl Add<u8> for Word.
Word_add_u8(self, rhs, profile) == WordAddValue(self, Bytes(rhs, LargestBytes), profile)

\* impl Sub for Word.
Word_sub(self, rhs, profile) ==
    IF ~check_types(self, rhs) THEN Panic
    ELSE LET word_size == extract(self)[1]
             maxv == max_val(self)
             maxv1 == U128Add(maxv, Bytes(1, LargestBytes))
             self_value == U128Rem(extract(self)[2], maxv1.value)
             rhs_value == U128Rem(extract(rhs)[2], maxv1.value)
         IN  IF maxv1.overflow /\ profile = "debug" THEN Panic
             ELSE IF self_value.tag = "panic" \/ rhs_value.tag = "panic" THEN Panic
             ELSE IF GtBits(self_value.value, rhs_value.value)
             THEN Word_new(word_size, SubBits(self_value.value, rhs_value.value).value)
             ELSE \* max_val - rhs_value + self_value + 1
                  LET d == SubBits(maxv, rhs_value.value).value
                      s1 == U128Add(d, self_value.value)
                      s2 == U128Add(s1.value, Bytes(1, LargestBytes))
                  IN  IF (s1.overflow \/ s2.overflow) /\ profile = "debug" THEN Panic
                      ELSE Word_new(word_size, s2.value)

(***************************************************************************)
(* src/rc5.rs: Word<T>, T one of u16, u32, u64, u128.  A Word<T> is the    *)
(* record of its width size_of::<T>() * 8 and its value.  An operation on  *)
(* the result of a panic never runs: it is the panic.                      *)
(***************************************************************************)

\* implement_word_ops!(u16, u32, u64, u128): the widths of the word types.
WordTypes == {16, 32, 64, 128}

Panicked(a) == a.tag = "panic"

\* 2_u128.pow(e): the wrapped power and whether it overflowed.
U128Pow2(e) ==
    [value |-> UnitBit(e, LargestBytes), overflow |-> e >= LargestBits]

\* num::cast::<u128, T>(v).unwrap(): panics when v does not fit T.
CastToT(v, word_size) ==
    IF \E i \in (word_size \div 8 + 1)..LargestBytes : v[i] # 0 THEN Panic
    ELSE OkWord(word_size, Resize(v, word_size \div 8))

\* impl From<u8> for Word<T>.
WordT_from(v, word_size) == OkWord(word_size, Bytes(v, word_size \div 8))

\* The body shared by impl Add and impl Sub for Word<T>: the u128 result
\* `r` of wrapping_add or wrapping_sub, reduced `% max_val` and cast to T.
WordT_reduce(word_size, r, profile) ==
    LET maxv == U128Pow2(word_size)
        rem == U128Rem(r, maxv.value)
    IN  IF maxv.overflow /\ profile = "debug" THEN Panic
        ELSE IF rem.tag = "panic" THEN Panic
        ELSE CastToT(rem.value, word_size)

\* impl Add for Word<T>.
WordT_add(self, rhs, profile) ==
    IF Panicked(self) \/ Panicked(rhs) THEN Panic
    ELSE LET word_size == self.width
             self_value == Resize(self.value, LargestBytes)
             rhs_value == Resize(rhs.value, LargestBytes)
         IN  WordT_reduce(word_size, U128Add(self_value, rhs_value).value, profile)

\* impl Sub for Word<T>.
WordT_sub(self, rhs, profile) ==
    IF Panicked(self) \/ Panicked(rhs) THEN Panic
    ELSE LET word_size == self.width
             self_value == Resize(self.value, LargestBytes)
             rhs_value == Resize(rhs.value, LargestBytes)
         IN  WordT_reduce(word_size, SubBits(self_value, rhs_value).value, profile)

\* The amount a native shift of T by rhs uses: rhs when it is below the
\* width; otherwise a panic in a debug build and rhs masked to the width in
\* a release build.  -1 stands for the panic.
NativeShift(rhs, word_size, profile) ==
    IF rhs < word_size THEN rhs
    ELSE IF profile = "debug" THEN -1
    ELSE rhs % word_size

\* A Shl<u8> that leaves the word as it is.
WordT_shl_u8_Unshifted(self, rhs, profile) == self

\* impl Shl<u8> for Word<T>: the native shift, no rotation.
WordT_shl_u8(self, rhs, profile) ==
    IF Panicked(self) THEN Panic
    ELSE LET s == NativeShift(rhs, self.width, profile)
         IN  IF s < 0 THEN Panic ELSE OkWord(self.width, ShlBits(self.value, s))

\* A Shr<u8> that shifts to the left.
WordT_shr_u8_Leftwards(self, rhs, profile) == WordT_shl_u8(self, rhs, profile)

\* impl Shr<u8> for Word<T>.
WordT_shr_u8(self, rhs, profile) ==
    IF Panicked(self) THEN Panic
    ELSE LET s == NativeShift(rhs, self.width, profile)
         IN  IF s < 0 THEN Panic ELSE OkWord(self.width, ShrBits(self.value, s))

\* impl Shl<Self> for Word<T>.
WordT_shl(self, rhs) ==
    IF Panicked(self) \/ Panicked(rhs) THEN Panic
    ELSE LET word_size == self.width
             r == NatMod(rhs.value, word_size)
             left == ShlBits(self.value, r)
             right == ShrBits(self.value, (word_size - r) % word_size)
         IN  OkWord(word_size, OrBits(left, right))

\* impl Shr for Word<T>.
WordT_shr(self, rhs) ==
    IF Panicked(self) \/ Panicked(rhs) THEN Panic
    ELSE LET word_size == self.width
             r == NatMod(rhs.value, word_size)
             left == ShrBits(self.value, r)
             right == ShlBits(self.value, (word_size - r) % word_size)
         IN  OkWord(word_size, OrBits(left, right))

\* impl BitOr / BitAnd / BitXor for Word<T>.
WordT_bitor(self, rhs) ==
    IF Panicked(self) \/ Panicked(rhs) THEN Panic
    ELSE OkWord(self.width, OrBits(self.value, rhs.value))

WordT_bitand(self, rhs) ==
    IF Panicked(self) \/ Panicked(rhs) THEN Panic
    ELSE OkWord(self.width, AndBits(self.value, rhs.value))

WordT_bitxor(self, rhs) ==
    IF Panicked(self) \/ Panicked(rhs) THEN Panic
    ELSE OkWord(self.width, XorBits(self.value, rhs.value))

(***************************************************************************)
(* The magic constants the engines are given or hold.                      *)
(***************************************************************************)

\* Bytes given most significant first, as a hexadecimal literal reads.
FromBE(s) == Vec([i \in 1..Len(s) |-> s[Len(s) + 1 - i]])

\* The magic constants of each width: (e - 2) * 2^w and (phi - 1) * 2^w, odd.
MagicP(w) ==
    FromBE(CASE w = 16 -> <<183, 225>>
             [] w = 32 -> <<183, 225, 81, 99>>
             [] w = 64 -> <<183, 225, 81, 98, 138, 237, 42, 107>>
             [] w = 128 -> <<183, 225, 81, 98, 138, 237, 42, 106,
                             191, 113, 88, 128, 156, 244, 243, 199>>)

MagicQ(w) ==
    FromBE(CASE w = 16 -> <<158, 55>>
             [] w = 32 -> <<158, 55, 121, 185>>
             [] w = 64 -> <<158, 55, 121, 185, 127, 74, 124, 21>>
             [] w = 128 -> <<158, 55, 121, 185, 127, 74, 124, 21,
                             243, 156, 192, 96, 92, 237, 200, 53>>)

(***************************************************************************)
(* src/rc5.rs: the generic engine RC5<T>, and utils::div_ceil.  A vector   *)
(* of the code, indexed from 0, is a sequence here, indexed from 1.        *)
(***************************************************************************)

\* utils::div_ceil.
div_ceil(numerator, divisor) == (numerator + (divisor - 1)) \div divisor

\* RC5::new.
RC5_new(word_size, num_rounds, p, q) ==
    [word_size |-> word_size, num_rounds |-> num_rounds,
     magic_constant_p |-> OkWord(word_size, p),
     magic_constant_q |-> OkWord(word_size, q)]

\* The outcome of a call that returns bytes or words, or panics.
Returned(v) == [tag |-> "ok", value |-> v]

Aborted == [tag |-> "panic", value |-> <<>>]

\* RC5::parse: the k-th byte from the end, input[j], is shifted left by
\* 8 * (k % num_bytes_per_word) bits and or-ed into word j / num_bytes_per_word.
parse(self, input, profile) ==
    LET input_size == Len(input)
        num_bytes_per_word == self.word_size \div 8
        num_words == div_ceil(input_size, num_bytes_per_word)
        zero == OkWord(self.word_size, Zeros(num_bytes_per_word))
        body(st, i) ==
            LET j == input_size - 1 - i
                at == j \div num_bytes_per_word + 1
                store(w) == IF Panicked(w) THEN Aborted
                            ELSE Returned([st.value EXCEPT ![at] = w])
            IN  store(WordT_bitor(st.value[at],
                                  WordT_shl_u8(WordT_from(input[j + 1], self.word_size),
                                               8 * (i % num_bytes_per_word), profile)))
    IN  ForLoop(body, Returned(Vec([k \in 1..num_words |-> zero])), 0, input_size - 1)

\* RC5::serialize: each word gives num_bytes_per_word bytes, the byte at
\* shift 8 * j for j from num_bytes_per_word - 1 down to 0.
serialize(self, output, profile) ==
    LET num_bytes_per_word == self.word_size \div 8
        num_bytes == Len(output) * num_bytes_per_word
        mask == OkWord(self.word_size, Bytes(255, num_bytes_per_word))
        byteAt(i) ==
            WordT_bitand(WordT_shr_u8(output[i \div num_bytes_per_word + 1],
                                      8 * (num_bytes_per_word - 1 - (i % num_bytes_per_word)),
                                      profile),
                         mask)
        collect(ret) ==
            IF \E i \in 1..num_bytes : Panicked(ret[i]) THEN Aborted
            ELSE Returned(Vec([i \in 1..num_bytes |-> ret[i].value[1]]))
    IN  collect(Vec([i \in 1..num_bytes |-> byteAt(i - 1)]))

\* The number of times key_expansion runs its mixing step.
num_iterations(t, num_words) == 3 * t

\* The run of RC5::key_expansion: its variables when it returns or panics,
\* with a record of the run: words is L as the first loop leaves it, mixes
\* counts the passes of the mixing loop, indices holds every index used on L.
key_expansion_run(self, secret_key, profile) ==
    LET key_size == Len(secret_key)
        ws == self.word_size
        num_bytes_per_word == ws \div 8
        num_words == div_ceil(key_size, num_bytes_per_word)
        zero == OkWord(ws, Zeros(num_bytes_per_word))
        t == 2 * (self.num_rounds + 1)
        panicked(st) == [st EXCEPT !.tag = "panic"]
        \* Converting the secret key from bytes to words, i from key_size - 1 to 0.
        fill(st, k) ==
            LET at == (key_size - 1 - k) \div num_bytes_per_word + 1
                store(w) ==
                    IF Panicked(w) THEN panicked(st)
                    ELSE [st EXCEPT !.L[at] = w, !.indices = @ \cup {at - 1}]
            IN  store(WordT_add(WordT_shl_u8(st.L[at], 8, profile),
                                WordT_from(secret_key[key_size - k], ws), profile))
        \* Initializing the array S.
        init(st, i) ==
            LET store(w) == IF Panicked(w) THEN panicked(st) ELSE [st EXCEPT !.S[i + 1] = w]
            IN  store(WordT_add(st.S[i], self.magic_constant_q, profile))
        \* Mixing in the secret key.  A panic in A or in A + B is a panic in B.
        mix(st, n) ==
            LET store(A, B) ==
                    IF Panicked(B) THEN panicked(st)
                    ELSE [st EXCEPT !.S[st.i + 1] = A, !.A = A,
                                    !.L[st.j + 1] = B, !.B = B,
                                    !.i = (st.i + 1) % t,
                                    !.j = (st.j + 1) % num_words,
                                    !.mixes = @ + 1, !.indices = @ \cup {st.j}]
                second(A, AB) ==
                    store(A, WordT_shl(WordT_add(st.L[st.j + 1], AB, profile), AB))
                first(A) == second(A, WordT_add(A, st.B, profile))
            IN  \* L[j] is out of bounds when the key is empty.
                IF st.j + 1 > Len(st.L) THEN panicked(st)
                ELSE first(WordT_shl(WordT_add(st.S[st.i + 1],
                                               WordT_add(st.A, st.B, profile), profile),
                                     WordT_from(3, ws)))
        st0 == [tag |-> "ok",
                L |-> Vec([k \in 1..num_words |-> zero]),
                S |-> Vec([k \in 1..t |-> IF k = 1 THEN self.magic_constant_p ELSE zero]),
                A |-> zero, B |-> zero, i |-> 0, j |-> 0,
                words |-> <<>>, mixes |-> 0, indices |-> {}]
        parsed(st) == IF st.tag = "panic" THEN st ELSE [st EXCEPT !.words = st.L]
    IN  ForLoop(mix,
                ForLoop(init, parsed(ForLoop(fill, st0, 0, key_size - 1)), 1, t - 1),
                1, num_iterations(t, num_words))

\* RC5::key_expansion: the table S, or the panic.
key_expansion(self, secret_key, profile) ==
    LET result(st) == IF st.tag = "panic" THEN Aborted ELSE Returned(st.S)
    IN  result(key_expansion_run(self, secret_key, profile))

\* The rounds of RC5::encrypt on the words of the block.  A panic in A is a
\* panic in B.
encrypt_words(self, S, input, profile) ==
    LET panicked == [tag |-> "panic"]
        round(st, i) ==
            LET store(A, B) == IF Panicked(B) THEN panicked ELSE [st EXCEPT !.A = A, !.B = B]
                half(A) ==
                    store(A, WordT_add(WordT_shl(WordT_bitxor(st.B, A), A), S[2 * i + 2],
                                       profile))
            IN  half(WordT_add(WordT_shl(WordT_bitxor(st.A, st.B), st.B), S[2 * i + 1],
                               profile))
        start(A, B) ==
            IF Panicked(A) \/ Panicked(B) THEN panicked
            ELSE ForLoop(round, [tag |-> "ok", A |-> A, B |-> B], 1, self.num_rounds)
    IN  start(WordT_add(input[1], S[1], profile), WordT_add(input[2], S[2], profile))

\* RC5::encrypt.  input[1] is out of bounds when parse returned one word.
encrypt(self, key, input_u8, profile) ==
    LET finish(st) ==
            IF st.tag = "panic" THEN Aborted ELSE serialize(self, <<st.A, st.B>>, profile)
        run(S, input) ==
            IF S.tag = "panic" \/ input.tag = "panic" THEN Aborted
            ELSE IF Len(input.value) < 2 THEN Aborted
            ELSE finish(encrypt_words(self, S.value, input.value, profile))
    IN  run(key_expansion(self, key, profile), parse(self, input_u8, profile))

\* The rounds of RC5::decrypt, i from num_rounds down to 1.  A panic in B
\* is a panic in A.
decrypt_words(self, S, input, profile) ==
    LET panicked == [tag |-> "panic"]
        round(st, k) ==
            LET i == self.num_rounds + 1 - k
                store(B, A) == IF Panicked(A) THEN panicked ELSE [st EXCEPT !.A = A, !.B = B]
                half(B) ==
                    store(B, WordT_bitxor(WordT_shr(WordT_sub(st.A, S[2 * i + 1], profile), B),
                                          B))
            IN  half(WordT_bitxor(WordT_shr(WordT_sub(st.B, S[2 * i + 2], profile), st.A),
                                  st.A))
        last(A, B) ==
            IF Panicked(A) \/ Panicked(B) THEN panicked ELSE [tag |-> "ok", A |-> A, B |-> B]
        finish(st) ==
            IF st.tag = "panic" THEN st
            ELSE last(WordT_sub(st.A, S[1], profile), WordT_sub(st.B, S[2], profile))
    IN  finish(ForLoop(round, [tag |-> "ok", A |-> input[1], B |-> input[2]],
                       1, self.num_rounds))

\* RC5::decrypt.
decrypt(self, key, input_u8, profile) ==
    LET finish(st) ==
            IF st.tag = "panic" THEN Aborted ELSE serialize(self, <<st.A, st.B>>, profile)
        run(S, input) ==
            IF S.tag = "panic" \/ input.tag = "panic" THEN Aborted
            ELSE IF Len(input.value) < 2 THEN Aborted
            ELSE finish(decrypt_words(self, S.value, input.value, profile))
    IN  run(key_expansion(self, key, profile), parse(self, input_u8, profile))

(***************************************************************************)
(* src/rc5/cypher.rs: the fixed engine Rc5 on u32 words, a u32 being four  *)
(* bytes.  src/algo/cypher.rs is the same code with other variable names   *)
(* and fewer tests.  No arithmetic of this engine can overflow unchecked:  *)
(* its additions and shifts are the wrapping ones, and the build profile   *)
(* does not change what it computes.                                       *)
(***************************************************************************)

Ok(v) == [tag |-> "ok", value |-> v]

Err(e) == [tag |-> "err", value |-> e]

\* size_of::<u32>(): the bytes u32::from_le_bytes takes.
U32Bytes == 4

wrapping_add(x, y) == AddBits(x, y, 0).value

wrapping_sub(x, y) == SubBits(x, y).value

\* u32::wrapping_shl and wrapping_shr: the amount is taken modulo 32.
wrapping_shl(x, rhs) == ShlBits(x, rhs % (8 * U32Bytes))

wrapping_shr(x, rhs) == ShrBits(x, rhs % (8 * U32Bytes))

\* y & (word_size - 1), a number below word_size: its low byte.
MaskAmount(y, word_size) == AndBits(y, Bytes(word_size - 1, U32Bytes))[1]

\* The fields match version gives Rc5::new.
Rc5Versions == {"Rc5_32_12_16", "Rc5_32_16_16"}

VersionRounds(version) == IF version = "Rc5_32_12_16" THEN 12 ELSE 16

\* Rc5::rotate_left.
rotate_left(self, x, y) ==
    OrBits(wrapping_shl(x, MaskAmount(y, self.word_size)),
           wrapping_shr(x, self.word_size - MaskAmount(y, self.word_size)))

\* A rotate_right that turns the word the wrong way.
rotate_right_Leftwards(self, x, y) ==
    OrBits(wrapping_shl(x, MaskAmount(y, self.word_size)),
           wrapping_shr(x, self.word_size - MaskAmount(y, self.word_size)))

\* Rc5::rotate_right.
rotate_right(self, x, y) ==
    OrBits(wrapping_shr(x, MaskAmount(y, self.word_size)),
           wrapping_shl(x, self.word_size - MaskAmount(y, self.word_size)))

\* max of std::cmp.
max(a, b) == IF a >= b THEN a ELSE b

\* A key schedule that mixes once over the larger table, not three times.
mix_count_Once(num_words, num_blocks) == max(num_words, num_blocks)

\* How many times expand_key runs its mixing step.
mix_count(num_words, num_blocks) == max(num_words, num_blocks) * 3

\* The run of Rc5::expand_key: its variables when it ends, with a record of
\* the run: words is l as the first loop leaves it, mixes counts the passes of
\* the mixing loop, indices holds every index used on l.
expand_key_run(self, key) ==
    LET num_blocks == max(self.key_len, 1) \div self.bytes_per_word
        num_words == (self.num_rounds + 1) * 2
        zero == Zeros(U32Bytes)
        \* key.iter().enumerate().rev(): i from the last index down to 0;
        \* checked_shl(8) is Some of the shifted word.
        fill(st, k) ==
            LET put(at, b) ==
                    [st EXCEPT !.l[at] = wrapping_add(ShlBits(st.l[at], 8), Bytes(b, U32Bytes)),
                               !.indices = @ \cup {at - 1}]
            IN  put((Len(key) - 1 - k) \div self.bytes_per_word + 1, key[Len(key) - k])
        init(st, i) ==
            [st EXCEPT !.secret_key_table[i + 1] =
                           wrapping_add(st.secret_key_table[i], self.magic_constant_q)]
        mix(st, n) ==
            LET store(a, b) ==
                    [st EXCEPT !.secret_key_table[st.i + 1] = a, !.a = a,
                               !.l[st.j + 1] = b, !.b = b,
                               !.i = (st.i + 1) % num_words,
                               !.j = (st.j + 1) % num_blocks,
                               !.mixes = @ + 1, !.indices = @ \cup {st.j}]
                second(a, a_b) ==
                    store(a, rotate_left(self, wrapping_add(st.l[st.j + 1], a_b), a_b))
                first(a) == second(a, wrapping_add(a, st.b))
            IN  first(rotate_left(self,
                                  wrapping_add(st.secret_key_table[st.i + 1],
                                               wrapping_add(st.a, st.b)),
                                  Bytes(3, U32Bytes)))
        st0 == [tag |-> "ok",
                l |-> Vec([k \in 1..(self.key_len - 1) |-> zero]),
                secret_key_table |->
                    Vec([k \in 1..num_words |-> IF k = 1 THEN self.magic_constant_p ELSE zero]),
                a |-> zero, b |-> zero, i |-> 0, j |-> 0,
                words |-> <<>>, mixes |-> 0, indices |-> {}]
        parsed(st) == [st EXCEPT !.words = st.l]
    IN  ForLoop(mix,
                ForLoop(init, parsed(ForLoop(fill, st0, 0, Len(key) - 1)), 1, num_words - 1),
                1, mix_count(num_words, num_blocks))

\* Rc5::expand_key: the secret key table.  Rc5::new calls it with a key of
\* key_len bytes only.
expand_key(self, key) == expand_key_run(self, key).secret_key_table

\* An Rc5::new that rejects only the keys that are too short.
Rc5_new_AtLeast(key, version) ==
    LET rc5 == [secret_key_table |-> <<>>,
                word_size |-> 32,
                num_rounds |-> VersionRounds(version),
                key_len |-> 16,
                magic_constant_p |-> MagicP(32),
                magic_constant_q |-> MagicQ(32),
                bytes_per_word |-> 32 \div 8]
    IN  IF Len(key) < rc5.key_len THEN Err("InvalidKeyLen")
        ELSE Ok([rc5 EXCEPT !.secret_key_table = expand_key(rc5, SubSeq(key, 1, 16))])

\* Rc5::new: Ok of the engine with its expanded key, or Err(InvalidKeyLen).
Rc5_new(key, version) ==
    LET rc5 == [secret_key_table |-> <<>>,
                word_size |-> 32,
                num_rounds |-> VersionRounds(version),
                key_len |-> 16,
                magic_constant_p |-> MagicP(32),
                magic_constant_q |-> MagicQ(32),
                bytes_per_word |-> 32 \div 8]
    IN  IF Len(key) # rc5.key_len THEN Err("InvalidKeyLen")
        ELSE Ok([rc5 EXCEPT !.secret_key_table = expand_key(rc5, key)])

\* Rc5::le_bytes_to_words: Ok of the two words, Err(BufferOutOfBounds), or
\* the panic of try_into().unwrap() on a slice that is not one word long.
le_bytes_to_words(self, block) ==
    IF Len(block) < self.bytes_per_word THEN Err("BufferOutOfBounds")
    ELSE IF Len(block) - self.bytes_per_word # U32Bytes THEN Aborted
    ELSE Ok(<<SubSeq(block, 1, self.bytes_per_word),
              SubSeq(block, self.bytes_per_word + 1, Len(block))>>)

\* Rc5::words_to_le_bytes.
words_to_le_bytes(self, words) == words[1] \o words[2]

\* The rounds of Rc5::encrypt on the two words.
Rc5_encrypt_words(self, words) ==
    LET s == self.secret_key_table
        round(st, i) ==
            LET store(a, b) == [st EXCEPT !.a = a, !.b = b]
                half(a) ==
                    store(a, wrapping_add(rotate_left(self, XorBits(st.b, a), a), s[2 * i + 2]))
            IN  half(wrapping_add(rotate_left(self, XorBits(st.a, st.b), st.b), s[2 * i + 1]))
    IN  ForLoop(round,
                [tag |-> "ok", a |-> wrapping_add(words[1], s[1]),
                 b |-> wrapping_add(words[2], s[2])],
                1, self.num_rounds)

\* Rc5::encrypt.
Rc5_encrypt(self, plaintext) ==
    LET finish(st) == Ok(words_to_le_bytes(self, <<st.a, st.b>>))
        run(words) == IF words.tag # "ok" THEN words
                      ELSE finish(Rc5_encrypt_words(self, words.value))
    IN  run(le_bytes_to_words(self, plaintext))

\* The rounds of Rc5::decrypt, i from num_rounds down to 1.
Rc5_decrypt_words(self, words) ==
    LET s == self.secret_key_table
        round(st, k) ==
            LET store(b, a) == [st EXCEPT !.a = a, !.b = b]
                half(i, b) ==
                    store(b, XorBits(rotate_right(self, wrapping_sub(st.a, s[2 * i + 1]), b), b))
                start(i) ==
                    half(i, XorBits(rotate_right(self, wrapping_sub(st.b, s[2 * i + 2]), st.a),
                                    st.a))
            IN  start(self.num_rounds + 1 - k)
    IN  ForLoop(round, [tag |-> "ok", a |-> words[1], b |-> words[2]], 1, self.num_rounds)

\* Rc5::decrypt.
Rc5_decrypt(self, ciphertext) ==
    LET s == self.secret_key_table
        finish(st) ==
            Ok(words_to_le_bytes(self, <<wrapping_sub(st.a, s[1]), wrapping_sub(st.b, s[2])>>))
        run(words) == IF words.tag # "ok" THEN words
                      ELSE finish(Rc5_decrypt_words(self, words.value))
    IN  run(le_bytes_to_words(self, ciphertext))

(***************************************************************************)
(* src/lib.rs: the engine RC5 of RC5-32/12/16 and encode, decode.          *)
(***************************************************************************)

W == 32

R == 12

B == 16

C == 4

T == 26

P == MagicP(32)

Q == MagicQ(32)

\* RC5::rotl and RC5::rotr: the amounts are below W, so the native shifts
\* cannot overflow.
rotl(x, y) ==
    OrBits(ShlBits(x, MaskAmount(y, W)), wrapping_shr(x, W - MaskAmount(y, W)))

rotr(x, y) ==
    OrBits(ShrBits(x, MaskAmount(y, W)), wrapping_shl(x, W - MaskAmount(y, W)))

\* RC5::new of lib.rs: the table s, all zero.
Lib_new == Vec([k \in 1..T |-> Zeros(U32Bytes)])

\* A setup that leaves the table as it finds it before mixing the key in.
init_table_Stale(s) == s

\* The table after `s[0] = P; for i in 1..T { s[i] = s[i - 1] + Q }` of
\* RC5::setup, written over the table s of the object.
init_table(s) ==
    LET init(st, i) == [st EXCEPT !.s[i + 1] = wrapping_add(st.s[i], Q)]
    IN  ForLoop(init, [tag |-> "ok", s |-> [s EXCEPT ![1] = P]], 1, T - 1).s

\* RC5::setup on an object whose table is s: the new table, or the panic of
\* key[i] on a key shorter than B (before anything is written).
\* (l[i / u] << 8) + key[i] cannot overflow: the low byte of the shifted
\* word is 0.
setup(s, key) ==
    LET u == W \div 8
        zero == Zeros(U32Bytes)
        fill(st, k) ==
            LET put(at, b) ==
                    [st EXCEPT !.l[at] = wrapping_add(ShlBits(st.l[at], 8), Bytes(b, U32Bytes))]
            IN  put((B - 1 - k) \div u + 1, key[B - k])
        mix(st, n) ==
            LET store(a, b) ==
                    [st EXCEPT !.s[st.i + 1] = a, !.a = a, !.l[st.j + 1] = b, !.b = b,
                               !.i = (st.i + 1) % T, !.j = (st.j + 1) % C]
                second(a, a_b) == store(a, rotl(wrapping_add(st.l[st.j + 1], a_b), a_b))
                first(a) == second(a, wrapping_add(a, st.b))
            IN  first(rotl(wrapping_add(st.s[st.i + 1], wrapping_add(st.a, st.b)),
                           Bytes(3, U32Bytes)))
        st0 == [tag |-> "ok",
                l |-> Vec([k \in 1..C |-> zero]),
                s |-> s,
                a |-> zero, b |-> zero, i |-> 0, j |-> 0]
        table(st) == [st EXCEPT !.s = init_table(st.s)]
    IN  IF Len(key) < B THEN Aborted
        ELSE Returned(ForLoop(mix, table(ForLoop(fill, st0, 0, B - 1)), 1, 3 * T).s)

\* RC5::encrypt of lib.rs: the two words.
Lib_encrypt(s, pt) ==
    LET round(st, i) ==
            LET store(a, b) == [st EXCEPT !.a = a, !.b = b]
                half(a) == store(a, wrapping_add(rotl(XorBits(st.b, a), a), s[2 * i + 2]))
            IN  half(wrapping_add(rotl(XorBits(st.a, st.b), st.b), s[2 * i + 1]))
        result(st) == <<st.a, st.b>>
    IN  result(ForLoop(round,
                       [tag |-> "ok", a |-> wrapping_add(pt[1], s[1]),
                        b |-> wrapping_add(pt[2], s[2])],
                       1, R))

\* RC5::decrypt of lib.rs.
Lib_decrypt(s, ct) ==
    LET round(st, k) ==
            LET store(b, a) == [st EXCEPT !.a = a, !.b = b]
                half(i, b) == store(b, XorBits(rotr(wrapping_sub(st.a, s[2 * i + 1]), b), b))
                start(i) == half(i, XorBits(rotr(wrapping_sub(st.b, s[2 * i + 2]), st.a), st.a))
            IN  start(R + 1 - k)
        result(st) == <<wrapping_sub(st.a, s[1]), wrapping_sub(st.b, s[2])>>
    IN  result(ForLoop(round, [tag |-> "ok", a |-> ct[1], b |-> ct[2]], 1, R))

\* u32::from_ne_bytes and to_ne_bytes on the little-endian targets (x86-64,
\* aarch64) the crate is built and tested on: the bytes of the word, least
\* significant first.
from_ne_bytes(x) == x

to_ne_bytes(x) == x

\* Convert<Vec<u32>> for Vec<u8>: chunks(4), each to a word; the panic of
\* try_into().unwrap() on a last chunk of fewer than 4 bytes.
convert_to_words(bytes) ==
    IF Len(bytes) % 4 # 0 THEN Aborted
    ELSE Returned(Vec([k \in 1..(Len(bytes) \div 4) |->
                          from_ne_bytes(SubSeq(bytes, 4 * k - 3, 4 * k))]))

\* Convert<Vec<u8>> for Vec<u32>.
convert_to_bytes(words) ==
    Vec([i \in 1..(4 * Len(words)) |->
            to_ne_bytes(words[((i - 1) \div 4) + 1])[((i - 1) % 4) + 1]])

\* encode: setup, then the plaintext as [WORD; 2] (try_into().unwrap()
\* panics on any other number of words), then encrypt.
encode(key, pt) ==
    LET run(s, words) ==
            IF s.tag = "panic" \/ words.tag = "panic" THEN Aborted
            ELSE IF Len(words.value) # 2 THEN Aborted
            ELSE Returned(convert_to_bytes(Lib_encrypt(s.value, words.value)))
    IN  run(setup(Lib_new, key), convert_to_words(pt))

\* decode.
decode(key, ciphertext) ==
    LET run(s, words) ==
            IF s.tag = "panic" \/ words.tag = "panic" THEN Aborted
            ELSE IF Len(words.value) # 2 THEN Aborted
            ELSE Returned(convert_to_bytes(Lib_decrypt(s.value, words.value)))
    IN  run(setup(Lib_new, key), convert_to_words(ciphertext))

(***************************************************************************)
(* utils.rs: BigNum, a decimal number kept as a string, and the deriver of *)
(* the magic constants.  A string is the sequence of the codes of its      *)
(* characters; the hexadecimal output is a string of the model.            *)
(***************************************************************************)

\* '0' as u8.
Zero == 48

\* '.' as u8.
Dot == 46

\* The least element of a non-empty set of numbers.
Least(S) == CHOOSE k \in S : \A m \in S : k <= m

\* A display that keeps the last digit only.
Display_Units(n) == <<(n % 10) + Zero>>

\* Display of an unsigned integer (to_string, format!("{}", n)).
RECURSIVE Display(_)
Display(n) == IF n < 10 THEN <<n + Zero>> ELSE Display(n \div 10) \o <<(n % 10) + Zero>>

\* The string "0." followed by the decimal digits d.
Fraction(d) == <<Zero, Dot>> \o Vec([k \in 1..Len(d) |-> d[k] + Zero])

\* BigNum::truncate: the piece before the first '.'.
truncate(self) ==
    LET dots == {k \in 1..Len(self) : self[k] = Dot}
    IN  IF dots = {} THEN self ELSE SubSeq(self, 1, Least(dots) - 1)

\* The closure to_hex of convert_binary_to_hex.
to_hex(x) ==
    CASE x = <<48, 48, 48, 48>> -> "0"
      [] x = <<48, 48, 48, 49>> -> "1"
      [] x = <<48, 48, 49, 48>> -> "2"
      [] x = <<48, 48, 49, 49>> -> "3"
      [] x = <<48, 49, 48, 48>> -> "4"
      [] x = <<48, 49, 48, 49>> -> "5"
      [] x = <<48, 49, 49, 48>> -> "6"
      [] x = <<48, 49, 49, 49>> -> "7"
      [] x = <<49, 48, 48, 48>> -> "8"
      [] x = <<49, 48, 48, 49>> -> "9"
      [] x = <<49, 48, 49, 48>> -> "A"
      [] x = <<49, 48, 49, 49>> -> "B"
      [] x = <<49, 49, 48, 48>> -> "C"
      [] x = <<49, 49, 48, 49>> -> "D"
      [] x = <<49, 49, 49, 48>> -> "E"
      [] x = <<49, 49, 49, 49>> -> "F"
      [] OTHER -> "error"

RECURSIVE HexFrom(_, _)
HexFrom(binary, at) ==
    IF at >= Len(binary) THEN ""
    ELSE to_hex(SubSeq(binary, at + 1, at + 4)) \o HexFrom(binary, at + 4)

\* BigNum::convert_binary_to_hex: the assert aborts on a length that is
\* not a multiple of 4.
convert_binary_to_hex(binary) ==
    IF Len(binary) % 4 # 0 THEN Aborted ELSE Returned(HexFrom(binary, 0))

\* An odds_to_one that finds every number even.
odds_to_one_Never(v) == 0

\* The closure odds_to_one of convert_to_binary.
odds_to_one(v) ==
    IF Len(v) > 0 /\ v[Len(v)] \in {Zero + 1, Zero + 3, Zero + 5, Zero + 7, Zero + 9}
    THEN 1 ELSE 0

\* The loop of the closure div_by_two: ch is a byte, and its oddness is
\* read off the decimal display of that byte.
RECURSIVE DivFrom(_, _, _, _)
DivFrom(s, k, add, new_s) ==
    IF k > Len(s) THEN new_s
    ELSE DivFrom(s, k + 1, odds_to_one(Display(s[k])) * 5,
                 new_s \o Display(((s[k] - Zero) \div 2) + add))

\* The closure div_by_two of convert_to_binary, on a string of digits.
div_by_two(s) ==
    LET strip(new_s) ==
            IF new_s # <<Zero>> /\ Len(new_s) > 0 /\ new_s[1] = Zero THEN Tail(new_s)
            ELSE new_s
    IN  strip(DivFrom(s, 1, 0, <<>>))

\* The while loop of convert_to_binary: one pass per evaluation of the
\* condition d != "0" that holds.
BinaryFrom(d, ret) ==
    LET at(d1, ret1) == [tag |-> IF d1 = <<Zero>> THEN "done" ELSE "ok", d |-> d1, ret |-> ret1]
        pass(st) == at(div_by_two(st.d), Display(odds_to_one(st.d)) \o st.ret)
    IN  WhileLoop(pass, at(d, ret), 0).ret

\* BigNum::convert_to_binary, on a non-empty string of digits.
convert_to_binary(decimal) ==
    IF decimal = <<Zero>> THEN <<Zero>> ELSE BinaryFrom(decimal, <<>>)

\* A binary_odd that leaves the last digit as it is.
binary_odd_Keep(binary) == binary

\* BigNum::binary_odd.
binary_odd(binary) ==
    IF Len(binary) > 0 THEN [binary EXCEPT ![Len(binary)] = Zero + 1] ELSE binary

\* BigNum::multiply, on a string of digits with at most one '.', by a
\* number whose products stay within a byte.
multiply(self, num2) ==
    LET num1 == self
        digits2 == Display(num2)
        len1 == Len(num1)
        len2 == Len(digits2)
        inner(st, k) ==
            LET store(partial_res) ==
                    [st EXCEPT !.carry = partial_res \div 10,
                               !.result[st.i_n1 + st.i_n2 + 1] = partial_res % 10,
                               !.i_n2 = @ + 1]
            IN  store(st.n1 * (digits2[len2 - k] - Zero)
                          + st.result[st.i_n1 + st.i_n2 + 1] + st.carry)
        outer(st, k) ==
            IF num1[len1 - k] = Dot THEN [st EXCEPT !.dot_index = len1 - (len1 - 1 - k) - 1]
            ELSE LET after(s2) ==
                         [s2 EXCEPT !.result[s2.i_n1 + s2.i_n2 + 1] =
                                        IF s2.carry > 0 THEN @ + s2.carry ELSE @,
                                    !.i_n1 = @ + 1]
                 IN  after(ForLoop(inner,
                                   [st EXCEPT !.carry = 0, !.n1 = num1[len1 - k] - Zero,
                                              !.i_n2 = 0],
                                   0, len2 - 1))
        insert(st) ==
            IF st.dot_index # 0
            THEN SubSeq(st.result, 1, st.dot_index) \o <<Dot>>
                     \o SubSeq(st.result, st.dot_index + 1, Len(st.result))
            ELSE st.result
        reverse(r) == Vec([k \in 1..Len(r) |-> r[Len(r) + 1 - k]])
        chars(r) == Vec([k \in 1..Len(r) |-> IF r[k] = Dot THEN r[k] ELSE r[k] + Zero])
        from_first(r, seen) ==
            IF seen # {} THEN SubSeq(r, Least(seen), Len(r)) ELSE <<Zero>>
        strip(r) == from_first(r, {k \in 1..Len(r) : r[k] # Zero})
    IN  IF len1 = 0 \/ len2 = 0 THEN <<Zero>>
        ELSE strip(chars(reverse(insert(
                 ForLoop(outer,
                         [tag |-> "ok", result |-> Vec([k \in 1..(len1 + len2) |-> 0]),
                          i_n1 |-> 0, i_n2 |-> 0, dot_index |-> 0, carry |-> 0, n1 |-> 0],
                         0, len1 - 1)))))

\* e - 2 (calc_magic_constants).
euler_minus_2 ==
    Fraction(<<
      7, 1, 8, 2, 8, 1, 8, 2, 8, 4, 5, 9, 0, 4, 5, 2, 3, 5, 3, 6, 0, 2, 8, 7, 4, 7, 1, 3, 5, 2, 6, 6, 2, 4, 9, 7, 7, 5, 7, 2,
      4, 7, 0, 9, 3, 6, 9, 9, 9, 5, 9, 5, 7, 4, 9, 6, 6, 9, 6, 7, 6, 2, 7, 7, 2, 4, 0, 7, 6, 6, 3, 0, 3, 5, 3, 5, 4, 7, 5, 9,
      4, 5, 7, 1, 3, 8, 2, 1, 7, 8, 5, 2, 5, 1, 6, 6, 4, 2, 7, 4, 2, 7, 4, 6, 6, 3, 9, 1, 9, 3, 2, 0, 0, 3, 0, 5, 9, 9, 2, 1,
      8, 1, 7, 4, 1, 3, 5, 9, 6, 6, 2, 9, 0, 4, 3, 5, 7, 2, 9, 0, 0, 3, 3, 4, 2, 9, 5, 2, 6, 0, 5, 9, 5, 6, 3, 0, 7, 3, 8, 1,
      3, 2, 3, 2, 8, 6, 2, 7, 9, 4, 3, 4, 9, 0, 7, 6, 3, 2, 3, 3, 8, 2, 9, 8, 8, 0, 7, 5, 3, 1, 9, 5, 2, 5, 1, 0, 1, 9, 0, 1,
      1, 5, 7, 3, 8, 3, 4, 1, 8, 7, 9, 3, 0, 7, 0, 2, 1, 5, 4, 0, 8, 9, 1, 4, 9, 9, 3, 4, 8, 8, 4, 1, 6, 7, 5, 0, 9, 2, 4, 4,
      7, 6, 1, 4, 6, 0, 6, 6, 8, 0, 8, 2, 2, 6, 4, 8, 0, 0, 1, 6, 8, 4, 7, 7, 4, 1, 1, 8, 5, 3, 7, 4, 2, 3, 4, 5, 4, 4, 2, 4,
      3, 7, 1, 0, 7, 5, 3, 9, 0, 7, 7, 7, 4, 4, 9, 9, 2, 0, 6, 9, 5, 5, 1, 7, 0, 2, 7, 6, 1, 8, 3, 8, 6, 0, 6, 2, 6, 1, 3, 3,
      1, 3, 8, 4, 5, 8, 3, 0, 0, 0, 7, 5, 2, 0, 4, 4, 9, 3, 3, 8, 2, 6, 5, 6, 0, 2, 9, 7, 6, 0, 6, 7, 3, 7, 1, 1, 3, 2, 0, 0,
      7, 0, 9, 3, 2, 8, 7, 0, 9, 1, 2, 7, 4, 4, 3, 7, 4, 7, 0, 4, 7, 2, 3, 0, 6, 9, 6, 9, 7, 7, 2, 0, 9, 3, 1, 0, 1, 4, 1, 6,
      9, 2, 8, 3, 6, 8, 1, 9, 0, 2, 5, 5, 1, 5, 1, 0, 8, 6, 5, 7, 4, 6, 3, 7, 7, 2, 1, 1, 1, 2, 5, 2, 3, 8, 9, 7, 8, 4, 4, 2,
      5, 0, 5, 6, 9, 5, 3, 6, 9, 6, 7, 7, 0, 7, 8, 5, 4, 4, 9, 9, 6, 9, 9, 6, 7, 9, 4, 6, 8, 6, 4, 4, 5, 4, 9, 0, 5, 9, 8, 7,
      9, 3, 1, 6, 3, 6, 8, 8, 9, 2, 3, 0, 0, 9, 8, 7, 9, 3, 1, 2, 7, 7, 3, 6, 1, 7, 8, 2, 1, 5, 4, 2, 4, 9, 9, 9, 2, 2, 9, 5,
      7, 6, 3, 5, 1, 4, 8, 2, 2, 0, 8, 2, 6, 9, 8, 9, 5, 1, 9, 3, 6, 6, 8, 0, 3, 3, 1, 8, 2, 5, 2, 8, 8, 6, 9, 3, 9, 8, 4, 9,
      6, 4, 6, 5, 1, 0, 5, 8, 2, 0, 9, 3, 9, 2, 3, 9, 8, 2, 9, 4, 8, 8, 7, 9, 3, 3, 2, 0, 3, 6, 2, 5, 0, 9, 4, 4, 3, 1, 1, 7,
      3, 0, 1, 2, 3, 8, 1, 9, 7, 0, 6, 8, 4, 1, 6, 1, 4, 0, 3, 9, 7, 0, 1, 9, 8, 3, 7, 6, 7, 9, 3, 2, 0, 6, 8, 3, 2, 8, 2, 3,
      7, 6, 4, 6, 4, 8, 0, 4, 2, 9, 5, 3, 1, 1, 8, 0, 2, 3, 2, 8, 7, 8, 2, 5, 0, 9, 8, 1, 9, 4, 5, 5, 8, 1, 5, 3, 0, 1, 7, 5,
      6, 7, 1, 7, 3, 6, 1, 3, 3, 2, 0, 6, 9, 8, 1, 1, 2, 5, 0, 9, 9, 6, 1, 8, 1, 8, 8, 1, 5, 9, 3, 0, 4, 1, 6, 9, 0, 3, 5, 1,
      5, 9, 8, 8, 8, 8, 5, 1, 9, 3, 4, 5, 8, 0, 7, 2, 7, 3, 8, 6, 6, 7, 3, 8, 5, 8, 9, 4, 2, 2, 8, 7, 9, 2, 2, 8, 4, 9, 9, 8,
      9, 2, 0, 8, 6, 8, 0, 5, 8, 2, 5, 7, 4, 9, 2, 7, 9, 6, 1, 0, 4, 8, 4, 1, 9, 8, 4, 4, 4, 3, 6, 3, 4, 6, 3, 2, 4, 4, 9, 6,
      8, 4, 8, 7, 5, 6, 0, 2, 3, 3, 6, 2, 4, 8, 2, 7, 0, 4, 1, 9, 7, 8, 6, 2, 3, 2, 0, 9, 0, 0, 2, 1, 6, 0, 9
    >>)

\* The golden ratio less 1 (calc_magic_constants).
golden_ratio_minus_1 ==
    Fraction(<<
      6, 1, 8, 0, 3, 3, 9, 8, 8, 7, 4, 9, 8, 9, 4, 8, 4, 8, 2, 0, 4, 5, 8, 6, 8, 3, 4, 3, 6, 5, 6, 3, 8, 1, 1, 7, 7, 2, 0, 3,
      0, 9, 1, 7, 9, 8, 0, 5, 7, 6, 2, 8, 6, 2, 1, 3, 5, 4, 4, 8, 6, 2, 2, 7, 0, 5, 2, 6, 0, 4, 6, 2, 8, 1, 8, 9, 0, 2, 4, 4,
      9, 7, 0, 7, 2, 0, 7, 2, 0, 4, 1, 8, 9, 3, 9, 1, 1, 3, 7, 4, 8, 4, 7, 5, 4, 0, 8, 8, 0, 7, 5, 3, 8, 6, 8, 9, 1, 7, 5, 2,
      1, 2, 6, 6, 3, 3, 8, 6, 2, 2, 2, 3, 5, 3, 6, 9, 3, 1, 7, 9, 3, 1, 8, 0, 0, 6, 0, 7, 6, 6, 7, 2, 6, 3, 5, 4, 4, 3, 3, 3,
      8, 9, 0, 8, 6, 5, 9, 5, 9, 3, 9, 5, 8, 2, 9, 0, 5, 6, 3, 8, 3, 2, 2, 6, 6, 1, 3, 1, 9, 9, 2, 8, 2, 9, 0, 2, 6, 7, 8, 8,
      0, 6, 7, 5, 2, 0, 8, 7, 6, 6, 8, 9, 2, 5, 0, 1, 7, 1, 1, 6, 9, 6, 2, 0, 7, 0, 3, 2, 2, 2, 1, 0, 4, 3, 2, 1, 6, 2, 6, 9,
      5, 4, 8, 6, 2, 6, 2, 9, 6, 3, 1, 3, 6, 1, 4, 4, 3, 8, 1, 4, 9, 7, 5, 8, 7, 0, 1, 2, 2, 0, 3, 4, 0, 8, 0, 5, 8, 8, 7, 9,
      5, 4, 4, 5, 4, 7, 4, 9, 2, 4, 6, 1, 8, 5, 6, 9, 5, 3, 6, 4, 8, 6, 4, 4, 4, 9, 2, 4, 1, 0, 4, 4, 3, 2, 0, 7, 7, 1, 3, 4,
      4, 9, 4, 7, 0, 4, 9, 5, 6, 5, 8, 4, 6, 7, 8, 8, 5, 0, 9, 8, 7, 4, 3, 3, 9, 4, 4, 2, 2, 1, 2, 5, 4, 4, 8, 7, 7, 0, 6, 6,
      4, 7, 8, 0, 9, 1, 5, 8, 8, 4, 6, 0, 7, 4, 9, 9, 8, 8, 7, 1, 2, 4, 0, 0, 7, 6, 5, 2, 1, 7, 0, 5, 7, 5, 1, 7, 9, 7, 8, 8,
      3, 4, 1, 6, 6, 2, 5, 6, 2, 4, 9, 4, 0, 7, 5, 8, 9, 0, 6, 9, 7, 0, 4, 0, 0, 0, 2, 8, 1, 2, 1, 0, 4, 2, 7, 6, 2, 1, 7, 7,
      1, 1, 1, 7, 7, 7, 8, 0, 5, 3, 1, 5, 3, 1, 7, 1, 4, 1, 0, 1, 1, 7, 0, 4, 6, 6, 6, 5, 9, 9, 1, 4, 6, 6, 9, 7, 9, 8, 7, 3,
      1, 7, 6, 1, 3, 5, 6, 0, 0, 6, 7, 0, 8, 7, 4, 8, 0, 7, 1, 0, 1, 3, 1, 7, 9, 5, 2, 3, 6, 8, 9, 4, 2, 7, 5, 2, 1, 9, 4, 8,
      4, 3, 5, 3, 0, 5, 6, 7, 8, 3, 0, 0, 2, 2, 8, 7, 8, 5, 6, 9, 9, 7, 8, 2, 9, 7, 7, 8, 3, 4, 7, 8, 4, 5, 8, 7, 8, 2, 2, 8,
      9, 1, 1, 0, 9, 7, 6, 2, 5, 0, 0, 3, 0, 2, 6, 9, 6, 1, 5, 6, 1, 7, 0, 0, 2, 5, 0, 4, 6, 4, 3, 3, 8, 2, 4, 3, 7, 7, 6, 4,
      8, 6, 1, 0, 2, 8, 3, 8, 3, 1, 2, 6, 8, 3, 3, 0, 3, 7, 2, 4, 2, 9, 2, 6, 7, 5, 2, 6, 3, 1, 1, 6, 5, 3, 3, 9, 2, 4, 7, 3,
      1, 6, 7, 1, 1, 1, 2, 1, 1, 5, 8, 8, 1, 8, 6, 3, 8, 5, 1, 3, 3, 1, 6, 2, 0, 3, 8, 4, 0, 0, 5, 2, 2, 2, 1, 6, 5, 7, 9, 1,
      2, 8, 6, 6, 7, 5, 2, 9, 4, 6, 5, 4, 9, 0, 6, 8, 1, 1, 3, 1, 7, 1, 5, 9, 9, 3, 4, 3, 2, 3, 5, 9, 7, 3, 4, 9, 4, 9, 8, 5,
      0, 9, 0, 4, 0, 9, 4, 7, 6, 2, 1, 3, 2, 2, 2, 9, 8, 1, 0, 1, 7, 2, 6, 1, 0, 7, 0, 5, 9, 6, 1, 1, 6, 4, 5, 6, 2, 9, 9, 0,
      9, 8, 1, 6, 2, 9, 0, 5, 5, 5, 2, 0, 8, 5, 2, 4, 7, 9, 0, 3, 5, 2, 4, 0, 6, 0, 2, 0, 1, 7, 2, 7, 9, 9, 7, 4, 7, 1, 7, 5,
      3, 4, 2, 7, 7, 7, 5, 9, 2, 7, 7, 8, 6, 2, 5, 6, 1, 9, 4, 3, 2, 0, 8, 2, 7, 5, 0, 5, 1, 3, 1, 2, 1, 8, 1, 5, 6, 2
    >>)

\* The string calc_magic_constants passes to convert_binary_to_hex.
OddBinary(number) == binary_odd(convert_to_binary(truncate(number)))

\* The steps of calc_magic_constants after the multiplications: the hex
\* string it prints, or the abort of convert_binary_to_hex.
TruncatedHex(number) == convert_binary_to_hex(OddBinary(number))

(***************************************************************************)
(* State.  One record per component; a specification drives one component  *)
(* and leaves the others idle.                                             *)
(***************************************************************************)
VARIABLES
    word,   \* Word arithmetic: the operands, the running value, the operators applied
    gen,    \* the generic engine RC5<T>: the engine, its inputs, the calls made
    fix,    \* the fixed engines Rc5 and lib.rs: the engine, its inputs, the calls made
    big     \* the deriver: the decimal string it works on

vars == <<word, gen, fix, big>>

Idle == [pc |-> "idle"]

(***************************************************************************)
(* Word arithmetic (src/word.rs and Word<T> of src/rc5.rs).  A run fixes   *)
(* the implementation, the build profile and two operands x and y of one   *)
(* width, then applies operators to the running value acc, starting at x,  *)
(* with y (or a u8) as the right operand.                                  *)
(***************************************************************************)

\* How many operators a run applies.
MaxOps == 2

WordImpls == {"word.rs", "rc5.rs"}

\* WordType::new accepts these widths (word.rs); rc5.rs has the WordTypes.
WidthsOf(impl) == IF impl = "word.rs" THEN {8, 16, 32, 64, 128} ELSE WordTypes

\* 0x70..0: the pattern 0111 in the top four bits.
TopSeven(w) == [i \in 1..(w \div 8) |-> IF i = w \div 8 THEN 112 ELSE 0]

\* 0xFF..FD.
OnesButOne(w) == [i \in 1..(w \div 8) |-> IF i = 1 THEN 253 ELSE 255]

\* Left operands: 1, 0x70..0 and 0xFF..FD.
XSamples(w) == {Bytes(1, w \div 8), TopSeven(w), OnesButOne(w)}

\* Right operands: 1, 2, the width, 16 times the width (0x0100 for 16 bits)
\* and 0xFF..FF.
YSamples(w) ==
    {Bytes(1, w \div 8), Bytes(2, w \div 8), Bytes(w, w \div 8), Bytes(16 * w, w \div 8),
     Ones(w \div 8)}

\* u8 right operands of Shl<u8> and Add<u8>.
U8Samples == {8, 255}

WordInit ==
    \E impl \in WordImpls, profile \in Profiles :
      \E w \in WidthsOf(impl) :
        \E x \in XSamples(w), y \in YSamples(w) :
          /\ word = [pc |-> "run", impl |-> impl, profile |-> profile,
                     x |-> OkWord(w, x), y |-> OkWord(w, y),
                     acc |-> OkWord(w, x), ops |-> <<>>]
          /\ gen = Idle /\ fix = Idle /\ big = Idle

\* A run can apply one more operator: it has not aborted.
Ready ==
    /\ word.pc = "run"
    /\ Len(word.ops) < MaxOps
    /\ word.acc.tag = "ok"

\* The state after operator op (with u8 operand n) gave r.
Applied(op, n, r) ==
    [word EXCEPT !.acc = r,
                 !.ops = Append(@, [op |-> op, u8 |-> n, before |-> word.acc])]

Shl ==
    /\ Ready
    /\ word' = Applied("shl", 0, IF word.impl = "word.rs" THEN Word_shl(word.acc, word.y)
                                 ELSE WordT_shl(word.acc, word.y))
    /\ UNCHANGED <<gen, fix, big>>

Shr ==
    /\ Ready
    /\ word' = Applied("shr", 0, IF word.impl = "word.rs" THEN Word_shr(word.acc, word.y)
                                 ELSE WordT_shr(word.acc, word.y))
    /\ UNCHANGED <<gen, fix, big>>

Add ==
    /\ Ready
    /\ word' = Applied("add", 0,
                       IF word.impl = "word.rs" THEN Word_add(word.acc, word.y, word.profile)
                       ELSE WordT_add(word.acc, word.y, word.profile))
    /\ UNCHANGED <<gen, fix, big>>

Sub ==
    /\ Ready
    /\ word' = Applied("sub", 0,
                       IF word.impl = "word.rs" THEN Word_sub(word.acc, word.y, word.profile)
                       ELSE WordT_sub(word.acc, word.y, word.profile))
    /\ UNCHANGED <<gen, fix, big>>

ShlU8 ==
    /\ Ready
    /\ \E n \in U8Samples :
         word' = Applied("shl_u8", n,
                         IF word.impl = "word.rs" THEN Word_shl_u8(word.acc, n)
                         ELSE WordT_shl_u8(word.acc, n, word.profile))
    /\ UNCHANGED <<gen, fix, big>>

AddU8 ==
    /\ Ready
    /\ word.impl = "word.rs"
    /\ \E n \in U8Samples : word' = Applied("add_u8", n, Word_add_u8(word.acc, n, word.profile))
    /\ UNCHANGED <<gen, fix, big>>

WordNext == Shl \/ Shr \/ Add \/ Sub \/ ShlU8 \/ AddU8

SpecWord == WordInit /\ [][WordNext]_vars

(***************************************************************************)
(* Words of word.rs built by WordBuilder.  A run fixes two word sizes and  *)
(* two values, builds a Word of each, and applies the operators that take  *)
(* two Words, and ==, to the running word and the second Word.             *)
(***************************************************************************)

\* Word sizes given to WordBuilder::new: the supported ones, 0 and 24.
BuildWidths == {0, 8, 16, 24, 32, 64, 128}

\* Values given to build_word: 0x1FF, and 0xF0E1..1E0F.
BuildValues == {Bytes(511, LargestBytes), Vec([k \in 1..LargestBytes |-> 15 * k])}

BuildInit ==
    \E profile \in Profiles, wx \in BuildWidths, wy \in BuildWidths :
      \E vx \in BuildValues, vy \in BuildValues :
        /\ word = [pc |-> "new", impl |-> "word.rs", profile |-> profile,
                   sizes |-> <<wx, wy>>, values |-> <<vx, vy>>,
                   x |-> NoWord, y |-> NoWord, acc |-> NoWord, ops |-> <<>>]
        /\ gen = Idle /\ fix = Idle /\ big = Idle

\* WordBuilder::new(size).build_word(value), for the first Word and, when
\* that did not panic, for the second.
Build ==
    /\ word.pc = "new"
    /\ LET built(x, y) ==
               word' = [word EXCEPT
                          !.x = x,
                          !.y = IF x.tag = "ok" THEN y ELSE NoWord,
                          !.acc = x,
                          !.pc = IF x.tag = "ok" /\ y.tag = "ok" THEN "run" ELSE "failed"]
       IN  built(build_word(word.sizes[1], word.values[1]),
                 build_word(word.sizes[2], word.values[2]))
    /\ UNCHANGED <<gen, fix, big>>

Or ==
    /\ Ready
    /\ word' = Applied("or", 0, Word_bitor(word.acc, word.y))
    /\ UNCHANGED <<gen, fix, big>>

And ==
    /\ Ready
    /\ word' = Applied("and", 0, Word_bitand(word.acc, word.y))
    /\ UNCHANGED <<gen, fix, big>>

Xor ==
    /\ Ready
    /\ word' = Applied("xor", 0, Word_bitxor(word.acc, word.y))
    /\ UNCHANGED <<gen, fix, big>>

\* word.acc == word.y: the answer is kept with the operator, 1 for true.
Eq ==
    /\ Ready
    /\ word' = Applied("eq", IF Word_eq(word.acc, word.y) THEN 1 ELSE 0, word.acc)
    /\ UNCHANGED <<gen, fix, big>>

BuildNext == Build \/ Shl \/ Shr \/ Add \/ Sub \/ Or \/ And \/ Xor \/ Eq

SpecBuild == BuildInit /\ [][BuildNext]_vars

(***************************************************************************)
(* The generic engine RC5<T> (src/rc5.rs).  A run fixes the word type, the *)
(* build profile, the engine RC5::new(num_rounds, p, q), a key and a       *)
(* block, then calls encrypt and decrypt on the running buffer data,       *)
(* starting at the block, and parse and serialize on the block.            *)
(***************************************************************************)

\* How many encrypt and decrypt calls a run makes.
MaxCalls == 2

\* The keys of the reference test vectors, and a key of five bytes.
KeyA == <<0, 1, 2, 3, 4, 5, 6, 7, 8, 9, 10, 11, 12, 13, 14, 15>>

KeyB == <<43, 214, 69, 159, 130, 197, 179, 0, 149, 44, 73, 16, 72, 129, 255, 72>>

KeyShort == <<1, 2, 3, 4, 5>>

GenKeys == {KeyA, KeyShort}

\* 32 bytes of data: the two plaintexts and the two ciphertexts of the
\* reference test vectors.
PlainA == <<0, 17, 34, 51, 68, 85, 102, 119>>

CipherA == <<45, 220, 20, 155, 207, 8, 139, 158>>

PlainB == <<234, 2, 71, 20, 173, 92, 77, 132>>

CipherB == <<17, 228, 59, 134, 210, 49, 234, 100>>

Pattern == PlainB \o PlainA \o CipherA \o CipherB

\* The blocks given to an engine of width w: the first and the last two
\* words of the data, a block one byte short, a block of one word and a block one
\* byte short of one word.
GenBlocks(w) ==
    LET n == w \div 8
    IN  {SubSeq(Pattern, 1, 2 * n), SubSeq(Pattern, 33 - 2 * n, 32),
         SubSeq(Pattern, 1, 2 * n - 1), SubSeq(Pattern, 1, n), SubSeq(Pattern, 1, n - 1)}

\* The round counts of the runs.
GenRounds == {0, 1}

NoResult == [tag |-> "none", value |-> <<>>]

GenInit ==
    \E w \in WordTypes, profile \in Profiles, r \in GenRounds, key \in GenKeys :
      \E block \in GenBlocks(w) :
        /\ gen = [pc |-> "run", profile |-> profile,
                  rc5 |-> RC5_new(w, r, MagicP(w), MagicQ(w)),
                  key |-> key, block |-> block,
                  data |-> Returned(block), calls |-> <<>>,
                  words |-> NoResult, bytes |-> NoResult]
        /\ word = Idle /\ fix = Idle /\ big = Idle

\* A run can make one more call: it has not aborted.
GenReady ==
    /\ gen.pc = "run"
    /\ Len(gen.calls) < MaxCalls
    /\ gen.data.tag = "ok"

GenEncrypt ==
    /\ GenReady
    /\ gen' = [gen EXCEPT
                 !.data = encrypt(gen.rc5, gen.key, gen.data.value, gen.profile),
                 !.calls = Append(@, [op |-> "encrypt", input |-> gen.data.value])]
    /\ UNCHANGED <<word, fix, big>>

GenDecrypt ==
    /\ GenReady
    /\ gen' = [gen EXCEPT
                 !.data = decrypt(gen.rc5, gen.key, gen.data.value, gen.profile),
                 !.calls = Append(@, [op |-> "decrypt", input |-> gen.data.value])]
    /\ UNCHANGED <<word, fix, big>>

\* parse of the block.
GenParse ==
    /\ gen.pc = "run"
    /\ gen.calls = <<>>
    /\ gen.words.tag = "none"
    /\ gen' = [gen EXCEPT !.words = parse(gen.rc5, gen.block, gen.profile)]
    /\ UNCHANGED <<word, fix, big>>

\* serialize of the words parse returned.
GenSerialize ==
    /\ gen.pc = "run"
    /\ gen.words.tag = "ok"
    /\ gen.bytes.tag = "none"
    /\ gen' = [gen EXCEPT !.bytes = serialize(gen.rc5, gen.words.value, gen.profile)]
    /\ UNCHANGED <<word, fix, big>>

GenNext == GenEncrypt \/ GenDecrypt \/ GenParse \/ GenSerialize

SpecGen == GenInit /\ [][GenNext]_vars

(***************************************************************************)
(* The fixed engines.  A run fixes the implementation, the version, a key  *)
(* and a block.  With Rc5 it calls Rc5::new, then encrypt and decrypt on   *)
(* the running buffer; with lib.rs it calls encode and decode.             *)
(***************************************************************************)

FixImpls == {"cypher.rs", "lib.rs"}

\* lib.rs has the one version RC5-32/12/16.
VersionsOf(impl) == IF impl = "cypher.rs" THEN Rc5Versions ELSE {"Rc5_32_12_16"}

\* The keys of the reference test vectors, a key one byte short and a key
\* one byte long.
FixKeys == {KeyA, KeyB, SubSeq(KeyA, 1, 15), KeyB \o <<0>>}

\* The plaintexts of the reference test vectors, a block one byte short,
\* a block of three bytes, a block of one word and a block one byte long.
FixBlocks ==
    {PlainA, PlainB, SubSeq(PlainA, 1, 7), SubSeq(PlainA, 1, 3), SubSeq(PlainA, 1, 4),
     PlainA \o <<136>>}

FixInit ==
    \E impl \in FixImpls, key \in FixKeys, block \in FixBlocks :
      \E version \in VersionsOf(impl) :
        /\ fix = [pc |-> IF impl = "cypher.rs" THEN "start" ELSE "ready",
                  impl |-> impl, version |-> version, key |-> key, block |-> block,
                  engine |-> NoResult, data |-> Ok(block), calls |-> <<>>]
        /\ word = Idle /\ gen = Idle /\ big = Idle

\* Rc5::new(key, version).
New ==
    /\ fix.pc = "start"
    /\ LET built(r) ==
               fix' = [fix EXCEPT !.engine = r,
                                  !.pc = IF r.tag = "ok" THEN "ready" ELSE "failed"]
       IN  built(Rc5_new(fix.key, fix.version))
    /\ UNCHANGED <<word, gen, big>>

\* A run can make one more call: the last one returned a buffer.
FixReady(impl) ==
    /\ fix.pc = "ready"
    /\ fix.impl = impl
    /\ Len(fix.calls) < MaxCalls
    /\ fix.data.tag = "ok"

Encrypt ==
    /\ FixReady("cypher.rs")
    /\ fix' = [fix EXCEPT
                 !.data = Rc5_encrypt(fix.engine.value, fix.data.value),
                 !.calls = Append(@, [op |-> "encrypt", input |-> fix.data.value])]
    /\ UNCHANGED <<word, gen, big>>

Decrypt ==
    /\ FixReady("cypher.rs")
    /\ fix' = [fix EXCEPT
                 !.data = Rc5_decrypt(fix.engine.value, fix.data.value),
                 !.calls = Append(@, [op |-> "decrypt", input |-> fix.data.value])]
    /\ UNCHANGED <<word, gen, big>>

Encode ==
    /\ FixReady("lib.rs")
    /\ fix' = [fix EXCEPT
                 !.data = encode(fix.key, fix.data.value),
                 !.calls = Append(@, [op |-> "encrypt", input |-> fix.data.value])]
    /\ UNCHANGED <<word, gen, big>>

Decode ==
    /\ FixReady("lib.rs")
    /\ fix' = [fix EXCEPT
                 !.data = decode(fix.key, fix.data.value),
                 !.calls = Append(@, [op |-> "decrypt", input |-> fix.data.value])]
    /\ UNCHANGED <<word, gen, big>>

FixNext == New \/ Encrypt \/ Decrypt \/ Encode \/ Decode

SpecFix == FixInit /\ [][FixNext]_vars

(***************************************************************************)
(* The deriver.  A run is one call of calc_magic_constants(w): w doublings *)
(* of e - 2, the hex string printed for P, w doublings of the golden ratio *)
(* less 1, the hex string printed for Q.                                   *)
(***************************************************************************)

\* The widths of the runs (calc_magic_consts_test calls 16 to 512).
BigWidths == {8, 16, 32, 64, 128, 256, 512}

BigInit ==
    \E w \in BigWidths :
        /\ big = [pc |-> "euler", w |-> w, number |-> euler_minus_2, i |-> 0,
                  p |-> NoResult, q |-> NoResult, pbits |-> <<>>, qbits |-> <<>>]
        /\ word = Idle /\ gen = Idle /\ fix = Idle

\* One pass of the first loop: euler_minus_2.multiply(2).
MultiplyEuler ==
    /\ big.pc = "euler"
    /\ big.i < big.w
    /\ big' = [big EXCEPT !.number = multiply(big.number, 2), !.i = @ + 1]
    /\ UNCHANGED <<word, gen, fix>>

\* After the first loop: truncate, convert_to_binary, binary_odd,
\* convert_binary_to_hex and the print of P; then the second number.
PrintP ==
    /\ big.pc = "euler"
    /\ big.i = big.w
    /\ LET printed(bits, a) ==
               big' = IF a.tag = "ok"
                      THEN [big EXCEPT !.p = a, !.pbits = bits, !.pc = "golden",
                                       !.number = golden_ratio_minus_1, !.i = 0]
                      ELSE [big EXCEPT !.p = a, !.pbits = bits, !.pc = "aborted"]
           passed(bits) == printed(bits, convert_binary_to_hex(bits))
       IN  passed(OddBinary(big.number))
    /\ UNCHANGED <<word, gen, fix>>

\* One pass of the second loop: golden_ratio_minus_1.multiply(2).
MultiplyGolden ==
    /\ big.pc = "golden"
    /\ big.i < big.w
    /\ big' = [big EXCEPT !.number = multiply(big.number, 2), !.i = @ + 1]
    /\ UNCHANGED <<word, gen, fix>>

\* After the second loop: the same steps and the print of Q.
PrintQ ==
    /\ big.pc = "golden"
    /\ big.i = big.w
    /\ LET printed(bits, a) ==
               big' = [big EXCEPT !.q = a, !.qbits = bits,
                                  !.pc = IF a.tag = "ok" THEN "done" ELSE "aborted"]
           passed(bits) == printed(bits, convert_binary_to_hex(bits))
       IN  passed(OddBinary(big.number))
    /\ UNCHANGED <<word, gen, fix>>

BigNext == MultiplyEuler \/ PrintP \/ MultiplyGolden \/ PrintQ

SpecBig == BigInit /\ [][BigNext]_vars

(***************************************************************************)
(* The generic engine beside a fixed one.  A run gives the same key and    *)
(* the same block to RC5<u32>::new(12, 0xB7E15163, 0x9E3779B9) and to Rc5  *)
(* under Rc5_32_12_16 or to lib.rs, and calls each of them.                *)
(***************************************************************************)

SameInit ==
    \E key \in {KeyA, KeyB}, block \in {PlainA, PlainB}, impl \in FixImpls :
        /\ gen = [pc |-> "run", profile |-> "debug",
                  rc5 |-> RC5_new(W, R, P, Q),
                  key |-> key, block |-> block,
                  data |-> Returned(block), calls |-> <<>>,
                  words |-> NoResult, bytes |-> NoResult]
        /\ fix = [pc |-> IF impl = "cypher.rs" THEN "start" ELSE "ready",
                  impl |-> impl, version |-> "Rc5_32_12_16", key |-> key, block |-> block,
                  engine |-> NoResult, data |-> Ok(block), calls |-> <<>>]
        /\ word = Idle /\ big = Idle

SameNext == GenEncrypt \/ GenDecrypt \/ New \/ Encrypt \/ Decrypt \/ Encode \/ Decode

SpecSame == SameInit /\ [][SameNext]_vars

(***************************************************************************)
(* The RC5 object of lib.rs.  A run makes the object with RC5::new and     *)
(* calls setup, encrypt and decrypt on it in any order; the key of the     *)
(* latest setup and the calls made are kept beside the table.              *)
(***************************************************************************)

\* How many calls a run makes on the object.
MaxSteps == 3

LibKeys == {KeyA, KeyB}

\* The blocks PlainA and PlainB as two words each.
LibBlocks ==
    {<<SubSeq(PlainA, 1, 4), SubSeq(PlainA, 5, 8)>>,
     <<SubSeq(PlainB, 1, 4), SubSeq(PlainB, 5, 8)>>}

LibInit ==
    /\ fix = [pc |-> "object", s |-> Lib_new, key |-> <<>>, out |-> <<>>, calls |-> <<>>]
    /\ word = Idle /\ gen = Idle /\ big = Idle

\* The object can take one more call.
LibReady == fix.pc = "object" /\ Len(fix.calls) < MaxSteps

\* rc5.setup(key).
Setup ==
    /\ LibReady
    /\ \E key \in LibKeys :
         LET done(r) ==
                 fix' = IF r.tag = "ok"
                        THEN [fix EXCEPT !.s = r.value, !.key = key,
                                         !.calls = Append(@, [op |-> "setup", input |-> key])]
                        ELSE [fix EXCEPT !.pc = "aborted"]
         IN  done(setup(fix.s, key))
    /\ UNCHANGED <<word, gen, big>>

\* rc5.encrypt(&pt): it reads the table and writes nothing to it.
LibEncrypt ==
    /\ LibReady
    /\ \E pt \in LibBlocks :
         fix' = [fix EXCEPT !.out = Lib_encrypt(fix.s, pt),
                            !.calls = Append(@, [op |-> "encrypt", input |-> pt])]
    /\ UNCHANGED <<word, gen, big>>

\* rc5.decrypt(&ct): it reads the table and writes nothing to it.
LibDecrypt ==
    /\ LibReady
    /\ \E ct \in LibBlocks :
         fix' = [fix EXCEPT !.out = Lib_decrypt(fix.s, ct),
                            !.calls = Append(@, [op |-> "decrypt", input |-> ct])]
    /\ UNCHANGED <<word, gen, big>>

LibNext == Setup \/ LibEncrypt \/ LibDecrypt

SpecLib == LibInit /\ [][LibNext]_vars

(***************************************************************************)
(* BigNum::multiply and BigNum::truncate on small numbers.  A run takes a  *)
(* decimal string, multiplies it up to MaxMuls times and may end with      *)
(* truncate.                                                               *)
(***************************************************************************)

\* The number of multiplications of one run.
MaxMuls == 2

\* "123", "123.0", "0.7", "0.05", "999.99", "0" and "45.".
MulStarts ==
    {<<49, 50, 51>>, <<49, 50, 51, 46, 48>>, <<48, 46, 55>>, <<48, 46, 48, 53>>,
     <<57, 57, 57, 46, 57, 57>>, <<48>>, <<52, 53, 46>>}

\* The multipliers: of one digit and of two, and 0.
MulFactors == {0, 2, 7, 20}

MulInit ==
    \E start \in MulStarts :
        /\ big = [pc |-> "num", start |-> start, num |-> start, factors |-> <<>>,
                  int |-> NoResult]
        /\ word = Idle /\ gen = Idle /\ fix = Idle

\* num.multiply(k).
Multiply ==
    /\ big.pc = "num"
    /\ Len(big.factors) < MaxMuls
    /\ \E k \in MulFactors :
         big' = [big EXCEPT !.num = multiply(big.num, k), !.factors = Append(@, k)]
    /\ UNCHANGED <<word, gen, fix>>

\* num.truncate(): it returns a string and leaves the number as it is.
Truncate ==
    /\ big.pc = "num"
    /\ big' = [big EXCEPT !.pc = "int", !.int = Returned(truncate(big.num))]
    /\ UNCHANGED <<word, gen, fix>>

MulNext == Multiply \/ Truncate

SpecMul == MulInit /\ [][MulNext]_vars

(***************************************************************************)
(* The pipeline multiply, truncate, convert_to_binary, the conversion pass *)
(* by pass.  A run goes on from truncate: convert_to_binary returns at     *)
(* once on "0", and otherwise halves its working string d while d != "0".  *)
(* The result string ret is written by the loop and read only by the       *)
(* return; the run keeps d alone, so that a loop that makes no progress is *)
(* a state that repeats.                                                   *)
(***************************************************************************)

\* The state of a run inside convert_to_binary.
Converting(pc, d) ==
    [pc |-> pc, start |-> big.start, num |-> big.num, factors |-> big.factors,
     int |-> big.int, d |-> d]

\* BigNum::convert_to_binary(&a) is called on what truncate returned: the
\* test decimal == "0".
Enter ==
    /\ big.pc = "int"
    /\ big' = Converting(IF big.int.value = <<Zero>> THEN "done" ELSE "loop", big.int.value)
    /\ UNCHANGED <<word, gen, fix>>

\* One pass of the loop while d != "0": d = div_by_two(&d).
Halve ==
    /\ big.pc = "loop"
    /\ big.d # <<Zero>>
    /\ big' = Converting("loop", div_by_two(big.d))
    /\ UNCHANGED <<word, gen, fix>>

\* The loop ends on d == "0" and convert_to_binary returns.
Return ==
    /\ big.pc = "loop"
    /\ big.d = <<Zero>>
    /\ big' = Converting("done", big.d)
    /\ UNCHANGED <<word, gen, fix>>

PipeNext == Multiply \/ Truncate \/ Enter \/ Halve \/ Return

\* Once convert_to_binary is called the program runs on: a step of it that
\* is possible is taken.
SpecPipe == MulInit /\ [][PipeNext]_vars /\ WF_vars(Enter \/ Halve \/ Return)

(***************************************************************************)
(* BigNum::convert_to_binary on strings of digits: up to MaxLeading zeros  *)
(* before the numeral of a number up to MaxValue.  A run may convert the   *)
(* string, and halves it with the closure div_by_two until "0" is left, as *)
(* the loop of the conversion does.                                        *)
(***************************************************************************)

\* The largest number converted.
MaxValue == 300

\* The most zeros written before a numeral.
MaxLeading == 3

BinInit ==
    \E n \in 0..MaxValue, z \in 0..MaxLeading :
        LET decimal == Vec([k \in 1..z |-> Zero]) \o Display(n)
        IN  /\ big = [pc |-> "digits", decimal |-> decimal, d |-> decimal,
                      prev |-> NoResult, out |-> NoResult]
            /\ word = Idle /\ gen = Idle /\ fix = Idle

\* BigNum::convert_to_binary(&decimal).
Convert ==
    /\ big.pc = "digits"
    /\ big.out.tag = "none"
    /\ big' = [big EXCEPT !.out = Returned(convert_to_binary(big.decimal))]
    /\ UNCHANGED <<word, gen, fix>>

\* d = div_by_two(&d), while d != "0".
DivByTwo ==
    /\ big.pc = "digits"
    /\ big.d # <<Zero>>
    /\ big' = [big EXCEPT !.d = div_by_two(big.d), !.prev = Returned(big.d)]
    /\ UNCHANGED <<word, gen, fix>>

BinNext == Convert \/ DivByTwo

SpecBin == BinInit /\ [][BinNext]_vars

(***************************************************************************)
(* Key expansion alone.  A run has one engine and one key: RC5<T> of       *)
(* rc5.rs, whose key_expansion is public and takes a key of any length, or *)
(* Rc5 of cypher.rs, whose expand_key is called by Rc5::new on a key of    *)
(* key_len bytes.                                                          *)
(***************************************************************************)

\* The round counts of the generic engines.
KeyRounds == {0, 1, 3}

\* The keys of the generic engines: 16 bytes, 5 bytes and 1 byte.
KeyLengths == {KeyA, KeyShort, <<7>>}

\* The Self { .. } that Rc5::new builds before it calls expand_key.
Rc5_unexpanded(version) ==
    [secret_key_table |-> <<>>,
     word_size |-> 32,
     num_rounds |-> VersionRounds(version),
     key_len |-> 16,
     magic_constant_p |-> MagicP(32),
     magic_constant_q |-> MagicQ(32),
     bytes_per_word |-> 32 \div 8]

KeyInit ==
    /\ word = Idle /\ big = Idle
    /\ \/ /\ \E w \in WordTypes, profile \in Profiles, r \in KeyRounds, key \in KeyLengths :
               gen = [pc |-> "key", profile |-> profile,
                      rc5 |-> RC5_new(w, r, MagicP(w), MagicQ(w)),
                      key |-> key, run |-> NoResult]
          /\ fix = Idle
       \/ /\ \E version \in Rc5Versions, key \in {KeyA, KeyB} :
               fix = [pc |-> "key", rc5 |-> Rc5_unexpanded(version), key |-> key,
                      run |-> NoResult]
          /\ gen = Idle

\* rc5.key_expansion(&key).
KeyExpansion ==
    /\ gen.pc = "key"
    /\ gen' = [gen EXCEPT !.pc = "expanded",
                          !.run = key_expansion_run(gen.rc5, gen.key, gen.profile)]
    /\ UNCHANGED <<word, fix, big>>

\* rc5.expand_key(key) of Rc5::new, after the check of the key length.
ExpandKey ==
    /\ fix.pc = "key"
    /\ Len(fix.key) = fix.rc5.key_len
    /\ fix' = [fix EXCEPT !.pc = "expanded", !.run = expand_key_run(fix.rc5, fix.key)]
    /\ UNCHANGED <<word, gen, big>>

KeyNext == KeyExpansion \/ ExpandKey

SpecKey == KeyInit /\ [][KeyNext]_vars

(***************************************************************************)
(* Reference semantics of the word operators, bit by bit.                  *)
(***************************************************************************)

\* Bit i (from 0, the least significant) of the byte vector v.
GetBit(v, i) == Bit(v[i \div 8 + 1], i % 8)

\* v of w bits rotated left by k positions: bit i of the result is bit
\* i - k (modulo w) of v.
RotlRef(v, k, w) ==
    [j \in 1..(w \div 8) |->
          GetBit(v, (8 * (j - 1) - k) % w)
        + 2 * GetBit(v, (8 * (j - 1) + 1 - k) % w)
        + 4 * GetBit(v, (8 * (j - 1) + 2 - k) % w)
        + 8 * GetBit(v, (8 * (j - 1) + 3 - k) % w)
        + 16 * GetBit(v, (8 * (j - 1) + 4 - k) % w)
        + 32 * GetBit(v, (8 * (j - 1) + 5 - k) % w)
        + 64 * GetBit(v, (8 * (j - 1) + 6 - k) % w)
        + 128 * GetBit(v, (8 * (j - 1) + 7 - k) % w)]

\* y mod w for a width w that divides 256: the low byte of y decides.
AmountRef(y, w) == y[1] % w

\* The operators applied so far, the last one, the one before it.
NumOps == IF word.pc = "run" THEN Len(word.ops) ELSE 0

LastOp == word.ops[NumOps]

PrevOp == word.ops[NumOps - 1]

WordWidth == word.x.width

\* C4: for every supported width w and all words x, y of that width,
\* rotating left by the width itself returns x, and rotating right by y and
\* then left by y returns x (Word of word.rs and Word<T> of rc5.rs).
C4_RotateIdentity ==
    /\ (NumOps >= 1 /\ LastOp.op = "shl" /\ word.y.value = Bytes(WordWidth, WordWidth \div 8))
          => word.acc = LastOp.before
    /\ (NumOps >= 2 /\ PrevOp.op = "shr" /\ LastOp.op = "shl")
          => word.acc = PrevOp.before

\* A right rotation by 0xFF..FF followed by the left rotation gave x back,
\* through a value other than x.
C4_Witness ==
    /\ NumOps = 2 /\ PrevOp.op = "shr" /\ LastOp.op = "shl"
    /\ word.y.value = Ones(WordWidth \div 8)
    /\ LastOp.before # word.x
    /\ word.acc = word.x

\* C5: for every supported width w, every word x and every amount y, also
\* y >= w, rotate_left(x, y) and rotate_right(x, y) are the w-bit circular
\* rotations of x by y mod w positions and do not abort (Word << Word,
\* Word >> Word, Word << u8 of word.rs, and << and >> of Word<T>).
C5_RotateIsCircular ==
    NumOps >= 1 =>
      LET w == WordWidth
          x == LastOp.before.value
          k == AmountRef(word.y.value, w)
      IN  /\ LastOp.op = "shl" => word.acc = OkWord(w, RotlRef(x, k, w))
          /\ LastOp.op = "shr" => word.acc = OkWord(w, RotlRef(x, w - k, w))
          /\ (LastOp.op = "shl_u8" /\ word.impl = "word.rs")
                => word.acc = OkWord(w, RotlRef(x, LastOp.u8 % w, w))

\* A 16-bit word was rotated by 0x0100, a multiple of the width above the
\* width, and came back unchanged.
C5_Witness ==
    /\ NumOps >= 1 /\ LastOp.op \in {"shl", "shr"}
    /\ WordWidth = 16 /\ word.y.value = Bytes(256, 2)
    /\ LastOp.before.value = TopSeven(16)
    /\ word.acc = LastOp.before

\* C6: for every width w in {8, 16, 32, 64, 128} and all words a, b of that
\* width, add returns (a + b) mod 2^w and sub returns (a - b) mod 2^w, and
\* neither aborts.
C6_AddSubWrap ==
    NumOps >= 1 =>
      LET w == WordWidth
          a == LastOp.before.value
          b == word.y.value
      IN  /\ LastOp.op = "add" => word.acc = OkWord(w, AddBits(a, b, 0).value)
          /\ LastOp.op = "sub" => word.acc = OkWord(w, SubBits(a, b).value)
          /\ (LastOp.op = "add_u8" /\ word.impl = "word.rs")
                => word.acc = OkWord(w, AddBits(a, Bytes(LastOp.u8, w \div 8), 0).value)


(***************************************************************************)
(* The generic engine: what its calls returned.                            *)
(***************************************************************************)

NumCalls == IF gen.pc = "run" THEN Len(gen.calls) ELSE 0

\* What call k of the run returned: the input of the next call, or the
\* running buffer after the last call.
ResultOf(k) == IF k < NumCalls THEN Returned(gen.calls[k + 1].input) ELSE gen.data

BytesPerWord == gen.rc5.word_size \div 8

\* The block of the run is exactly two words.
TwoWordBlock == Len(gen.block) = 2 * BytesPerWord

\* C1: for the generic engine RC5<T> with T in {u16, u32, u64, u128}, every
\* round count, key and block of exactly two words, encrypt does not
\* abort, decrypt of its result does not abort, and it returns the block.
C1_GenericRoundTrip ==
    (NumCalls >= 1 /\ TwoWordBlock /\ gen.calls[1].op = "encrypt") =>
        /\ ResultOf(1).tag = "ok"
        /\ (NumCalls >= 2 /\ gen.calls[2].op = "decrypt") => ResultOf(2) = Returned(gen.block)

\* C10: the generic engine reads and writes little-endian words: parse maps
\* each group of size_of(T) bytes of a two-word block to the word whose
\* least significant byte is the first byte of the group, and serialize
\* emits each word least significant byte first.
C10_GenericLittleEndian ==
    (gen.pc = "run" /\ TwoWordBlock /\ gen.words.tag = "ok") =>
        /\ \A k \in 1..2 :
              gen.words.value[k].value
                  = SubSeq(gen.block, (k - 1) * BytesPerWord + 1, k * BytesPerWord)
        /\ gen.bytes.tag = "ok" =>
              gen.bytes.value = gen.words.value[1].value \o gen.words.value[2].value

(***************************************************************************)
(* The fixed engines: what their calls returned.                           *)
(***************************************************************************)

\* Rc5::new has returned (lib.rs has no constructor that can fail).
Constructed == fix.pc \in {"ready", "failed"} /\ fix.impl = "cypher.rs"

NumFixCalls == IF fix.pc = "ready" THEN Len(fix.calls) ELSE 0

\* What call k of the run returned: the input of the next call, or the
\* running buffer after the last call.
FixResultOf(k) == IF k < NumFixCalls THEN Ok(fix.calls[k + 1].input) ELSE fix.data

\* The result r is the result expected.
Gives(r, expected) == r.tag = expected.tag /\ r.value = expected.value

\* Decryptions of the reference test vectors (tests decode_a and decode_b).
DecodedA == <<150, 149, 13, 218, 101, 74, 61, 98>>

DecodedB == <<99, 139, 58, 94, 247, 43, 102, 63>>

\* The first call of the run is op on block under key, as RC5-32/12/16.
FirstCall(op, key, block) ==
    /\ NumFixCalls >= 1
    /\ fix.version = "Rc5_32_12_16"
    /\ fix.key = key
    /\ fix.block = block
    /\ fix.calls[1].op = op

\* C2: RC5-32/12/16 agrees with the reference test vectors in both
\* directions, for lib.rs encode/decode and for Rc5 encrypt/decrypt: under
\* key 00..0F, 0011223344556677 encrypts to 2DDC149BCF088B9E and decrypts to
\* 96950DDA654A3D62; under key 2BD6..FF48, EA024714AD5C4D84 encrypts to
\* 11E43B86D231EA64 and decrypts to 638B3A5EF72B663F.
C2_ReferenceVectors ==
    /\ FirstCall("encrypt", KeyA, PlainA) => Gives(FixResultOf(1), Ok(CipherA))
    /\ FirstCall("decrypt", KeyA, PlainA) => Gives(FixResultOf(1), Ok(DecodedA))
    /\ FirstCall("encrypt", KeyB, PlainB) => Gives(FixResultOf(1), Ok(CipherB))
    /\ FirstCall("decrypt", KeyB, PlainB) => Gives(FixResultOf(1), Ok(DecodedB))

\* lib.rs has decoded the second test vector.
C2_Witness ==
    /\ FirstCall("decrypt", KeyB, PlainB)
    /\ fix.impl = "lib.rs"
    /\ Gives(FixResultOf(1), Ok(DecodedB))

\* C3: for Rc5 built by Rc5::new with a 16-byte key under either version,
\* and an 8-byte plaintext pt, decrypt(encrypt(pt)) returns Ok(pt).
C3_FixedRoundTrip ==
    ( /\ NumFixCalls = 2
      /\ fix.impl = "cypher.rs"
      /\ Len(fix.block) = 8
      /\ fix.calls[1].op = "encrypt"
      /\ fix.calls[2].op = "decrypt" ) => Gives(fix.data, Ok(fix.block))

\* The sixteen-round version has encrypted and decrypted a block.
C3_Witness ==
    /\ NumFixCalls = 2
    /\ fix.impl = "cypher.rs"
    /\ fix.version = "Rc5_32_16_16"
    /\ fix.calls[1].op = "encrypt"
    /\ fix.calls[2].op = "decrypt"
    /\ fix.calls[2].input # fix.block
    /\ Gives(fix.data, Ok(fix.block))

\* C8: Rc5::new returns Err(InvalidKeyLen), with no engine and no expanded
\* key, for every key whose length is not 16 bytes (15 and 17 included),
\* and Ok for every 16-byte key, under both versions.
C8_KeyLength ==
    Constructed =>
        IF Len(fix.key) = 16
        THEN /\ fix.engine.tag = "ok"
             /\ fix.engine.value.num_rounds = VersionRounds(fix.version)
        ELSE Gives(fix.engine, Err("InvalidKeyLen"))

\* Rc5::new has refused a key of seventeen bytes.
C8_Witness ==
    /\ Constructed
    /\ Len(fix.key) = 17
    /\ Gives(fix.engine, Err("InvalidKeyLen"))

\* The first call of the run was given fewer than two words.
ShortBlock == NumFixCalls >= 1 /\ fix.impl = "cypher.rs" /\ Len(fix.block) < 8

\* C9: encrypt and decrypt report a buffer-bounds error, an error value and
\* neither an abort nor a ciphertext, for every block shorter than
\* 2 * bytes_per_word bytes, a block of 7 bytes included.
C9_ShortBlockIsError == ShortBlock => Gives(FixResultOf(1), Err("BufferOutOfBounds"))

\* The first call of the run was given more than two words.
LongBlock == NumFixCalls >= 1 /\ fix.impl = "cypher.rs" /\ Len(fix.block) > 8

\* C24: Rc5::encrypt and Rc5::decrypt do not abort on a block longer than
\* 8 bytes: they return Ok of exactly 8 bytes or Err(BufferOutOfBounds), and
\* an Ok result is always exactly 8 bytes long.
C24_LongBlockReturns ==
    /\ LongBlock =>
           \/ FixResultOf(1).tag = "ok" /\ Len(FixResultOf(1).value) = 8
           \/ Gives(FixResultOf(1), Err("BufferOutOfBounds"))
    /\ (NumFixCalls >= 1 /\ fix.impl = "cypher.rs" /\ FixResultOf(1).tag = "ok")
           => Len(FixResultOf(1).value) = 8

(***************************************************************************)
(* The deriver: what it printed.                                           *)
(***************************************************************************)

\* The run of width w has printed P.
PrintedP(w) == big.pc \in {"golden", "done"} /\ big.w = w

\* The run of width w has printed Q.
PrintedQ(w) == big.pc = "done" /\ big.w = w

\* C7: the hex strings calc_magic_constants builds are P = B7E15163 and
\* Q = 9E3779B9 for width 32, and P = B7E151628AED2A6B and
\* Q = 9E3779B97F4A7C15 for width 64.
C7_DerivedConstants ==
    /\ PrintedP(32) => Gives(big.p, Returned("B7E15163"))
    /\ PrintedQ(32) => Gives(big.q, Returned("9E3779B9"))
    /\ PrintedP(64) => Gives(big.p, Returned("B7E151628AED2A6B"))
    /\ PrintedQ(64) => Gives(big.q, Returned("9E3779B97F4A7C15"))

\* The run of width 64 has printed both constants.
C7_Witness ==
    /\ PrintedQ(64)
    /\ big.i = 64
    /\ big.p.value = "B7E151628AED2A6B"
    /\ big.q.value = "9E3779B97F4A7C15"

(***************************************************************************)
(* The generic engine beside a fixed one: what the two returned.           *)
(***************************************************************************)

\* Both engines were given the same key and block, and each has made its
\* first call, the same operation.
SameFirstCall ==
    /\ NumCalls >= 1 /\ NumFixCalls >= 1
    /\ gen.key = fix.key /\ gen.block = fix.block
    /\ gen.calls[1].op = fix.calls[1].op

\* C11: for every 16-byte key and 8-byte block, encrypt of
\* RC5<u32>::new(12, 0xB7E15163, 0x9E3779B9) returns the same bytes as
\* encrypt of Rc5 under Rc5_32_12_16 and as encode of lib.rs, and likewise
\* for decrypt.
C11_GenericAgreesWithFixed == SameFirstCall => Gives(ResultOf(1), FixResultOf(1))

(***************************************************************************)
(* Words built by WordBuilder: what was built and what the operators gave. *)
(***************************************************************************)

\* build_word has been called for the first Word.
Built == word.pc \in {"run", "failed"} /\ word.impl = "word.rs" /\ word.x.tag # "none"

BinaryOps == {"add", "sub", "and", "or", "xor", "shl", "shr"}

\* C13: every binary operation on two Words (add, sub, AND, OR, XOR,
\* rotate-left, rotate-right) fails without a Word on operands of different
\* widths and returns a Word of width w on operands of equal width w, and
\* == holds only between Words of the same width and value.
C13_WidthChecked ==
    (NumOps >= 1 /\ Built) =>
        /\ (LastOp.op \in BinaryOps /\ LastOp.before.width # word.y.width)
              => word.acc.tag = "panic"
        /\ (LastOp.op \in BinaryOps /\ LastOp.before.width = word.y.width)
              => word.acc.tag = "ok" /\ word.acc.width = word.y.width
        /\ LastOp.op = "eq"
              => (LastOp.u8 = 1
                     <=> /\ LastOp.before.width = word.y.width
                         /\ LastOp.before.value = word.y.value)

(***************************************************************************)
(* The generic engine: its configuration and its key schedule.             *)
(***************************************************************************)

\* C14: an engine with num_rounds = 0 is rejected at construction, so no
\* engine with zero rounds expands a key or encrypts: every engine that has
\* made a call has at least one round.
C14_ZeroRoundsRejected == NumCalls >= 1 => gen.rc5.num_rounds >= 1

(***************************************************************************)
(* The RC5 object of lib.rs: its table and what it returned.               *)
(***************************************************************************)

\* setup has been called on the object.
KeyIsSet == fix.pc = "object" /\ fix.key # <<>>

\* The last call made on the object.
LastCall == fix.calls[Len(fix.calls)]

\* The key expansion of key on an object fresh from RC5::new.
FreshTable(key) == setup(Lib_new, key).value

\* C15: after any sequence of setup, encrypt and decrypt calls on the
\* lib.rs object, the table s is the key expansion of the key of the latest
\* setup, whatever the earlier keys and table contents; encrypt and decrypt
\* leave s unchanged; so encrypt returns what a fresh object set up with
\* the latest key returns for the block.
C15_TableFollowsLatestKey ==
    KeyIsSet =>
        /\ fix.s = FreshTable(fix.key)
        /\ LastCall.op = "encrypt"
              => fix.out = Lib_encrypt(FreshTable(fix.key), LastCall.input)
        /\ LastCall.op = "decrypt"
              => fix.out = Lib_decrypt(FreshTable(fix.key), LastCall.input)

\* The object was set up with one key, then with another, and then
\* encrypted a block.
C15_Witness ==
    /\ KeyIsSet
    /\ Len(fix.calls) = 3
    /\ fix.calls[1].op = "setup" /\ fix.calls[2].op = "setup"
    /\ fix.calls[1].input # fix.calls[2].input
    /\ LastCall.op = "encrypt"
    /\ fix.key = KeyA
    /\ fix.out = <<SubSeq(CipherA, 1, 4), SubSeq(CipherA, 5, 8)>>

\* C16: for RC5<T> and every byte sequence whose length is a multiple of
\* size_of(T), serialize(parse(bytes)) = bytes.
C16_SerializeParse ==
    (gen.pc = "run" /\ Len(gen.block) % BytesPerWord = 0 /\ gen.bytes.tag # "none")
        => Gives(gen.bytes, Returned(gen.block))

\* Two words of u128 were parsed and serialized back.
C16_Witness ==
    /\ gen.pc = "run"
    /\ gen.rc5.word_size = 128
    /\ Len(gen.block) = 32
    /\ gen.words.tag = "ok" /\ Len(gen.words.value) = 2
    /\ gen.bytes = Returned(gen.block)

(***************************************************************************)
(* Decimal strings read as numbers.                                        *)
(***************************************************************************)

\* The characters of s other than the point.
DigitsOf(s) == SelectSeq(s, LAMBDA c : c # Dot)

\* The number a sequence of digit characters denotes.
RECURSIVE NatOf(_)
NatOf(ds) ==
    IF ds = <<>> THEN 0
    ELSE NatOf(SubSeq(ds, 1, Len(ds) - 1)) * 10 + (ds[Len(ds)] - Zero)

\* The number of characters after the point of s, 0 without a point.
DigitsAfterPoint(s) ==
    LET dots == {k \in 1..Len(s) : s[k] = Dot}
    IN  IF dots = {} THEN 0 ELSE Len(s) - Least(dots)

\* The product of a sequence of numbers.
RECURSIVE ProductOf(_)
ProductOf(ks) == IF ks = <<>> THEN 1 ELSE ks[1] * ProductOf(Tail(ks))

\* The numeral of n in the given base (2 or 10), without leading zeros.
RECURSIVE NumeralRef(_, _)
NumeralRef(n, base) ==
    IF n < base THEN <<Zero + n>>
    ELSE NumeralRef(n \div base, base) \o <<Zero + (n % base)>>

\* C17: multiply(k) replaces the stored string with the exact product: its
\* digits, leading zeros removed, are those of value * k, the number of digits
\* after the point is unchanged, and a value without a point times 0 is "0".
C17_MultiplyExact ==
    (big.pc = "num" /\ big.factors # <<>>) =>
        /\ NatOf(DigitsOf(big.num)) = NatOf(DigitsOf(big.start)) * ProductOf(big.factors)
        /\ DigitsAfterPoint(big.num) = DigitsAfterPoint(big.start)
        /\ (big.num = <<Zero>> \/ big.num[1] # Zero)
        /\ (DigitsOf(big.start) = big.start /\ big.factors[Len(big.factors)] = 0)
               => big.num = <<Zero>>

\* "123.0" times 20 is "2460.0".
C17_Witness ==
    /\ big.pc = "num"
    /\ big.start = <<49, 50, 51, 46, 48>>
    /\ big.factors = <<20>>
    /\ big.num = <<50, 52, 54, 48, 46, 48>>

\* C18: convert_to_binary returns, for every non-empty string of decimal
\* digits denoting n, the binary numeral of n without leading zeros, and each
\* halving step yields a digit string denoting floor(n / 2).
C18_BinaryOfDecimal ==
    big.pc = "digits" =>
        /\ big.out.tag = "ok" => big.out.value = NumeralRef(NatOf(big.decimal), 2)
        /\ big.prev.tag = "ok" => NatOf(big.d) = NatOf(big.prev.value) \div 2

(***************************************************************************)
(* The key schedule of the RC5 definition: t table words, c key words.     *)
(***************************************************************************)

\* t = 2 * (rounds + 1).
TableSizeRef(rounds) == 2 * (rounds + 1)

\* c = ceil(n / bytes_per_word), by counting.
KeyWordsRef(n, bpw) == Cardinality({k \in 0..(n - 1) : k % bpw = 0})

\* Word k of the key: bytes k * bpw .. min(n, (k + 1) * bpw) - 1, least
\* significant first, zero-extended to size bytes.
KeyWordRef(key, k, bpw, size) ==
    Vec([m \in 1..size |-> IF m <= bpw /\ k * bpw + m <= Len(key) THEN key[k * bpw + m] ELSE 0])

\* The larger of two numbers.
Larger(a, b) == IF a < b THEN b ELSE a

\* C19: key expansion runs its mixing step exactly 3 * max(t, c) times, for
\* every round count and key length, also when c > t.
C19_MixCount ==
    /\ (gen.pc = "expanded" /\ gen.run.tag = "ok")
           => gen.run.mixes =
                  3 * Larger(TableSizeRef(gen.rc5.num_rounds),
                             KeyWordsRef(Len(gen.key), gen.rc5.word_size \div 8))
    /\ fix.pc = "expanded"
           => fix.run.mixes =
                  3 * Larger(TableSizeRef(fix.rc5.num_rounds),
                             KeyWordsRef(Len(fix.key), fix.rc5.bytes_per_word))

RECURSIVE TenTo(_)
TenTo(n) == IF n = 0 THEN 1 ELSE 10 * TenTo(n - 1)

\* The start of the run is written with a decimal point.
HasPoint == DigitsOf(big.start) # big.start

\* floor(value * k) of the run: the digits of the start times the factors,
\* less the digits after the point.
FloorRef ==
    (NatOf(DigitsOf(big.start)) * ProductOf(big.factors))
        \div TenTo(DigitsAfterPoint(big.start))

\* C21: for a BigNum written with a decimal point and a small multiplier k,
\* truncate() after multiply(k) returns the decimal numeral of floor(value * k),
\* which is "0" when the product is below 1.
C21_TruncateIsFloor ==
    (big.pc = "int" /\ HasPoint /\ big.factors # <<>>)
        => big.int.value = NumeralRef(FloorRef, 10)

\* The hex digits of the odd values.
OddHexDigits == {"1", "3", "5", "7", "9", "B", "D", "F"}

\* bits is a string of w binary digits ending in 1, and a is the returned
\* string of w / 4 hex digits whose last digit is odd.
WidthAndOdd(bits, a, w) ==
    /\ Len(bits) = w
    /\ \A k \in 1..Len(bits) : bits[k] \in {Zero, Zero + 1}
    /\ bits[Len(bits)] = Zero + 1
    /\ a.tag = "ok"
    /\ Len(a.value) = w \div 4
    /\ \E d \in OddHexDigits : a.value = HexFrom(SubSeq(bits, 1, Len(bits) - 4), 0) \o d

\* C22: for every width w in {8, 16, 32, 64, 128, 256, 512}, each of the two
\* binary strings calc_magic_constants passes to convert_binary_to_hex has
\* exactly w bits and ends in 1, so the assertion on the length never fails, and
\* each constant has exactly w / 4 hex digits and is odd.
C22_ConstantsHaveWidth ==
    /\ big.pc # "aborted"
    /\ big.pc \in {"golden", "done"} => WidthAndOdd(big.pbits, big.p, big.w)
    /\ big.pc = "done" => WidthAndOdd(big.qbits, big.q, big.w)

\* The run of width 512 has printed both constants, of 128 hex digits each.
C22_Witness ==
    /\ big.pc = "done"
    /\ big.w = 512
    /\ Len(big.pbits) = 512 /\ Len(big.qbits) = 512
    /\ Len(big.p.value) = 128 /\ Len(big.q.value) = 128

\* C23: the pipeline always terminates: after multiply and truncate,
\* convert_to_binary reaches the end of its loop (the working string becomes
\* "0"), also when the product is below 1.
C23_PipelineTerminates ==
    (big.pc = "int" /\ big.factors # <<>>) ~> (big.pc = "done")

=============================================================================
